---- MODULE Spec2Model ----
(***************************************************************************)
(* Model of the column-wise Sort of supersonic/cursor/core/sort.cc:        *)
(* SortPermutation with its per-column range refinement, and the Sort      *)
(* cursor built on it (BufferingSorter, BasicMerger, SortCursor).          *)
(*                                                                         *)
(* Rows are numbered from 0 as in the code; a view is a function from      *)
(* 0..n-1 to rows, a row is a sequence of cells, one per column, and the   *)
(* cell Null stands for a row whose is_null bit is set in that column.     *)
(***************************************************************************)
EXTENDS Integers, Sequences, FiniteSets, TLC

\* ------------------------------------------------------------------ bounds
MaxRows == 3
MaxInput == 3
MaxBatch == 2
MaxChildRows == 2

MaxArguments == 2

MaxViewRows == 2
MaxAddSorted == 2

Null == 0
Values == {1, 2}

\* ------------------------------------------------------------- state
VARIABLES
    input,          \* SortPermutation: the input view
    sort_order,     \* SortPermutation: the bound sort order, one entry per key
    nullable,       \* per column: whether the column has an is_null bitmap
    permutation,    \* Permutation: row indices, 0-based
    source_ranges,  \* vector<Range> being read for the current key
    target_ranges,  \* vector<Range> being filled for the next key
    col,            \* the loop variable i of SortPermutation
    ridx,           \* position of SortColumnResolved's loop in source_ranges
    pc,             \* position of SortPermutation
    capacity,       \* rows the materialization Table takes under its quota
    barrier_supported, \* child->IsWaitingOnBarrierSupported()
    fault,          \* the operation that may fail in this run
    child_pos,      \* rows the child cursor has handed out
    child_interrupted, \* Interrupt() has reached the child cursor
    writer,         \* writer_: is_eos, is_waiting_on_barrier, rows not yet written
    memory_buffer,  \* BufferingSorter::memory_buffer_, or Moved
    file_buffers,   \* BasicMerger::file_buffers_: the recorded runs
    disk,           \* the temporary files that exist
    created,        \* number of temporary files created so far
    sorter_result,  \* ProcessData's local sorter_result
    result,         \* SortCursor::result_, or NoCursor
    cpc,            \* position of the thread that calls Next
    ipc,            \* position of the thread that calls Interrupt
    max_row_count,  \* the argument of the Next call in progress
    ret,            \* what the last Next call returned
    emitted,        \* the rows returned by Next so far
    calls,          \* history: Next calls, flushes, calls begun after Interrupt
    schema,         \* BoundExtendedSort: child->schema(), attribute names and types
    child_rows,     \* BoundExtendedSort: the rows of child
    specification,  \* the ExtendedSortSpecification: keys and limit
    result_projector, \* the result projector given, or NoProjector
    insensitive_paths, \* case_insensitive_keys_field_paths
    sensitive_paths,   \* case_sensitive_keys_field_paths
    uppercase_version_position, \* attribute name -> position of its uppercase
    uppercase_names,   \* uppercase_version_attribute_names
    compute_argument,  \* the ExpressionList given to BoundCompute
    keys_projector,    \* positions added to keys_projector
    ki,             \* the loop variable i of the loop BoundExtendedSort is in
    epc,            \* position of BoundExtendedSort
    final_cursor,   \* what BoundExtendedSort returns: a failure, or the rows of
                    \* the cursor and its schema
    arguments_,     \* BoundConcatExpression::arguments_, with the columns they read
    row_count,      \* input.row_count()
    skip_entry,     \* skip_vectors.column(0) as DoEvaluate was entered
    skip_vectors,   \* skip_vectors.column(0)
    results,        \* DoEvaluate's results
    unchecked,      \* the loop that does not read the skip vector was chosen
    destination,    \* column 0 of my_block()
    xi,             \* index of the loop DoEvaluate is in
    xpc,            \* position in BoundConcat and DoEvaluate
    concat_schema,  \* result_schema() of the BoundConcatExpression
    my_view,        \* what DoEvaluate returned
    arena_failed,   \* AllocateBytes of the destination's arena has returned NULL
    \* a BasicMerger that is called directly
    merger          \* position of the caller, and what the last call got and returned

sortVars == <<permutation, source_ranges, target_ranges, col, ridx, pc>>

cursorVars == <<capacity, barrier_supported, fault, child_pos, child_interrupted,
                writer, memory_buffer, file_buffers, disk, created, sorter_result,
                result, cpc, ipc, max_row_count, ret, emitted, calls>>

extVars == <<schema, child_rows, specification, result_projector, insensitive_paths,
             sensitive_paths, uppercase_version_position, uppercase_names,
             compute_argument, keys_projector, ki, epc, final_cursor>>

concatVars == <<arguments_, row_count, skip_entry, skip_vectors, results, unchecked,
                destination, xi, xpc, concat_schema, my_view, arena_failed>>

mergerVars == <<merger>>

\* The variables of the operations beside the Sort cursor.
restVars == <<extVars, concatVars, mergerVars>>

vars == <<input, sort_order, nullable, sortVars, cursorVars, restVars>>

\* ------------------------------------------------------------- helpers
Range(from, to) == [from |-> from, to |-> to]

RowCount(view) == Cardinality(DOMAIN view)

Identity(n) == [i \in 0..(n - 1) |-> i]

\* The cell of row r in the column a sort key reads.
Cell(view, key, r) == view[r][key.pos]

IsNullAt(view, key, r) == Cell(view, key, r) = Null

\* LessThanComparator<type, descending>::operator()
LessThanComparatorFlipped(view, key, a, b) ==
    IF key.desc THEN Cell(view, key, a) < Cell(view, key, b)
                ELSE Cell(view, key, b) < Cell(view, key, a)

LessThanComparator(view, key, a, b) ==
    IF key.desc THEN Cell(view, key, b) < Cell(view, key, a)
                ELSE Cell(view, key, a) < Cell(view, key, b)

\* NullPartitionPredicate<descending>::operator()
NullPartitionPredicateSameSide(view, key, i) == IsNullAt(view, key, i)

NullPartitionPredicate(view, key, i) == IsNullAt(view, key, i) # key.desc

\* All orders of the elements of a set, as sequences.
RECURSIVE Arrangements(_)
Arrangements(S) ==
    IF S = {} THEN {<<>>}
    ELSE UNION {{<<e>> \o t : t \in Arrangements(S \ {e})} : e \in S}

\* All orders of the elements of S that the comparator accepts as sorted: an
\* element may come first when no other element is less than it.
RECURSIVE SortedArrangements(_, _, _)
SortedArrangements(S, view, key) ==
    IF S = {} THEN {<<>>}
    ELSE UNION {{<<e>> \o t : t \in SortedArrangements(S \ {e}, view, key)} :
                e \in {x \in S : \A y \in S : ~LessThanComparator(view, key, y, x)}}

\* The permutation with positions from..to-1 replaced by the sequence s.
PlacedFromStart(perm, from, s) ==
    [i \in DOMAIN perm |-> IF i < Len(s) THEN s[i + 1] ELSE perm[i]]

Placed(perm, from, s) ==
    [i \in DOMAIN perm |->
        IF i >= from /\ i < from + Len(s) THEN s[i - from + 1] ELSE perm[i]]

Slice(perm, from, to) == {perm[i] : i \in from..(to - 1)}

\* Permutation::Sort(from, to, less_than): std::sort on the range; the order
\* of rows the comparator holds equivalent is unspecified.
PermutationSortKeepOrder(perm, from, to, view, key) == {perm}

PermutationSort(perm, from, to, view, key) ==
    {Placed(perm, from, s) : s \in SortedArrangements(Slice(perm, from, to), view, key)}

\* Permutation::Partition(from, to, predicate): std::partition on the range;
\* returns the number of rows the predicate holds of, which now come first.
\* The order inside either part is unspecified.
PermutationPartition(perm, from, to, view, key) ==
    LET T == {x \in Slice(perm, from, to) : NullPartitionPredicate(view, key, x)}
        F == Slice(perm, from, to) \ T
    IN {[perm |-> Placed(perm, from, a \o b), partition |-> Cardinality(T)] :
            a \in Arrangements(T), b \in Arrangements(F)}

\* The scan of SortNonNullRange (lines 178-189): rows current_from..j-1 are
\* equal under the key; a run of more than one row becomes a range.
ScanWholeRange(perm, view, key, current_from, j, to, target) ==
    IF to - current_from > 1 THEN Append(target, Range(current_from, to)) ELSE target

RECURSIVE ScanEqualRuns(_, _, _, _, _, _, _)
ScanEqualRuns(perm, view, key, current_from, j, to, target) ==
    IF j >= to
    THEN IF to - current_from > 1
         THEN Append(target, Range(current_from, to))
         ELSE target
    ELSE IF LessThanComparator(view, key, perm[current_from], perm[j])
         THEN ScanEqualRuns(perm, view, key, j, j + 1, to,
                            IF j - current_from > 1
                            THEN Append(target, Range(current_from, j))
                            ELSE target)
         ELSE ScanEqualRuns(perm, view, key, current_from, j + 1, to, target)

\* SortNonNullRange<type, descending>: the outcomes [perm, target].
SortNonNullRange(view, key, source, target, perm, is_last_column) ==
    {[perm |-> q,
      target |-> IF is_last_column THEN target
                 ELSE ScanEqualRuns(q, view, key, source.from, source.from + 1,
                                    source.to, target)] :
        q \in PermutationSort(perm, source.from, source.to, view, key)}

\* The rows SortRange sorts right after the partition are the values: the
\* first part when descending, the second otherwise. Sort rearranges that part
\* whatever order the partition left it in, so of the partition outcomes that
\* differ only there, the one with that part in index order is followed.
ValuesInIndexOrder(p, key, source) ==
    LET lo == IF key.desc THEN source.from ELSE source.from + p.partition
        hi == IF key.desc THEN source.from + p.partition ELSE source.to
    IN \A i, j \in lo..(hi - 1) : i < j => p.perm[i] < p.perm[j]

\* SortRange<type, descending, is_always_not_null>: the outcomes [perm, target].
SortRange(view, key, is_always_not_null, source, target, perm, is_last_column) ==
    IF is_always_not_null
    THEN SortNonNullRange(view, key, source, target, perm, is_last_column)
    ELSE UNION {
        LET partition == p.partition
            first == Range(source.from, source.from + partition)
            second == Range(source.from + partition, source.to)
            \* if (partition > 1) { ... }
            afterFirst ==
                IF partition > 1
                THEN IF key.desc
                     THEN SortNonNullRange(view, key, first, target, p.perm,
                                           is_last_column)
                     ELSE {[perm |-> p.perm,
                            target |-> IF is_last_column THEN target
                                       ELSE Append(target, first)]}
                ELSE {[perm |-> p.perm, target |-> target]}
        IN UNION {
            \* if (source.to - partition > 1) { ... }
            IF source.to - partition > 1
            THEN IF key.desc
                 THEN {[perm |-> a.perm,
                        target |-> IF is_last_column THEN a.target
                                   ELSE Append(a.target, second)]}
                 ELSE SortNonNullRange(view, key, second, a.target, a.perm,
                                       is_last_column)
            ELSE {a} : a \in afterFirst}
        : p \in {x \in PermutationPartition(perm, source.from, source.to, view, key) :
                    ValuesInIndexOrder(x, key, source)}}

\* SortColumn / SortTypedColumn: is_null == NULL selects is_always_not_null.
SortTypedColumn(view, key, source, target, perm, is_last_column) ==
    SortRange(view, key, ~nullable[key.pos], source, target, perm, is_last_column)

NumColumns == Len(sort_order)

\* ------------------------------------------------------------- inputs
Cells(isNullable) == IF isNullable THEN Values \cup {Null} ELSE Values

Keys(k) == [pos |-> k[1], desc |-> k[2]]

SortOrders ==
    {<<>>}
    \cup {<<Keys(<<p, d>>)>> : p \in 1..2, d \in BOOLEAN}
    \cup {<<Keys(<<1, d>>), Keys(<<2, e>>)>> : d \in BOOLEAN, e \in BOOLEAN}

\* The columns a sort order reads; the others hold one value throughout.
KeyColumns(order) == {order[i].pos : i \in DOMAIN order}

ColumnCells(order, nl, c) == IF c \in KeyColumns(order) THEN Cells(nl[c]) ELSE {1}

Nullabilities(order) ==
    {nl \in [1..2 -> BOOLEAN] : \A c \in 1..2 : nl[c] => c \in KeyColumns(order)}

Views(order, nl) ==
    UNION {[0..(n - 1) -> {<<a, b>> : a \in ColumnCells(order, nl, 1),
                                      b \in ColumnCells(order, nl, 2)}] :
           n \in 0..MaxRows}

\* Example 1 and Example 2 of the file header, and a nullable column.
Example1 == [i \in 0..6 |-> <<<<5, 3>>, <<4, 2>>, <<1, 2>>, <<4, 5>>, <<3, 1>>, <<3, 3>>, <<4, 1>>>>[i + 1]]
Example2 == [i \in 0..3 |-> <<<<5, 3>>, <<4, 2>>, <<1, 2>>, <<3, 3>>>>[i + 1]]
Example3 == [i \in 0..4 |-> <<<<5, 1>>, <<Null, 1>>, <<3, 1>>, <<Null, 1>>, <<1, 1>>>>[i + 1]]
AscAsc == <<Keys(<<1, FALSE>>), Keys(<<2, FALSE>>)>>

\* Orders of three keys, the second on the nullable column: its source ranges
\* need not start at row 0, and it is not the last key.
ThreeKeys ==
    {<<Keys(<<1, FALSE>>), Keys(<<2, d>>), Keys(<<1, FALSE>>)>> : d \in BOOLEAN}

\* ------------------------------------------------------------- SortPermutation as a whole
\* SortColumnResolved: SortRange on every source range from position idx on.
RECURSIVE SortColumnResolved(_, _, _, _, _, _, _)
SortColumnResolved(view, key, source, idx, target, perm, is_last_column) ==
    IF idx > Len(source)
    THEN {[perm |-> perm, target |-> target]}
    ELSE UNION {SortColumnResolved(view, key, source, idx + 1, o.target, o.perm,
                                   is_last_column) :
                o \in SortTypedColumn(view, key, source[idx], target, perm,
                                      is_last_column)}

\* The loop of SortPermutation from key i (0-based) on: the permutations it
\* may leave.
RECURSIVE SortPermutationFrom(_, _, _, _, _)
SortPermutationFrom(order, view, i, perm, source) ==
    IF i >= Len(order)
    THEN {perm}
    ELSE UNION {IF o.target = <<>>
                THEN {o.perm}
                ELSE SortPermutationFrom(order, view, i + 1, o.perm, o.target) :
                o \in SortColumnResolved(view, order[i + 1], source, 1, <<>>, perm,
                                         i = Len(order) - 1)}

SortPermutation(order, view) ==
    SortPermutationFrom(order, view, 0, Identity(RowCount(view)),
                        <<Range(0, RowCount(view))>>)

\* A cursor over rows already in their final order: the rows (as indices into
\* the child's input), the read position, whether Interrupt() reached it, and
\* the temporary files it owns and deletes when it is destroyed.
Cursor(rows, files) ==
    [set |-> TRUE, rows |-> rows, pos |-> 0, interrupted |-> FALSE, files |-> files]

NoCursor ==
    [set |-> FALSE, rows |-> <<>>, pos |-> 0, interrupted |-> FALSE, files |-> {}]

\* result_projector == NULL
NoProjector == [given |-> FALSE, positions |-> <<>>]

Pending == [code |-> "PENDING", rows |-> <<>>, schema |-> <<>>]

\* The state of BoundExtendedSort's variables while it is not called.
ExtUnused ==
    /\ schema = <<>>
    /\ child_rows = <<>>
    /\ specification = [keys |-> <<>>, has_limit |-> FALSE, limit |-> 0]
    /\ result_projector = NoProjector
    /\ insensitive_paths = {}
    /\ sensitive_paths = {}
    /\ uppercase_version_position = <<>>
    /\ uppercase_names = {}
    /\ compute_argument = <<>>
    /\ keys_projector = <<>>
    /\ ki = 0
    /\ epc = "unused"
    /\ final_cursor = Pending

NoView == [code |-> "PENDING", row_count |-> 0, data |-> <<>>, is_null |-> <<>>]

NoSchema == [name |-> <<>>, nullability |-> "NOT_NULLABLE"]

ConcatUnused ==
    /\ arguments_ = <<>>
    /\ row_count = 0
    /\ skip_entry = <<>>
    /\ skip_vectors = <<>>
    /\ results = <<>>
    /\ unchecked = FALSE
    /\ destination = <<>>
    /\ xi = 0
    /\ xpc = "unused"
    /\ concat_schema = NoSchema
    /\ my_view = NoView
    /\ arena_failed = FALSE

\* A cursor handed to AddSorted: it returns rows, and then is at EOS or waits
\* on a barrier with the rows of rest to come.
SortedCursor(rows, waits, rest) == [rows |-> rows, waits |-> waits, rest |-> rest]

\* The state of a BasicMerger that is not called directly.
NoMerger ==
    [pc |-> "unused", calls |-> 0, next |-> 0, last |-> "none", code |-> "none",
     before |-> <<>>, read |-> 0,
     finalized |-> FALSE, write_failed |-> FALSE, finalize_failed |-> FALSE,
     waiting |-> FALSE, merged_cursors |-> <<>>, additional |-> NoCursor,
     result |-> NoCursor]

MergerUnused == merger = NoMerger

\* The state of the cursor variables while SortPermutation alone is studied.
CursorUnused ==
    /\ capacity = 0
    /\ barrier_supported = FALSE
    /\ fault = {}
    /\ child_pos = 0
    /\ child_interrupted = FALSE
    /\ writer = [eos |-> FALSE, waiting |-> FALSE, pending |-> <<>>]
    /\ memory_buffer = <<>>
    /\ file_buffers = <<>>
    /\ disk = {}
    /\ created = 0
    /\ sorter_result = NoCursor
    /\ result = NoCursor
    /\ cpc = "idle"
    /\ ipc = "none"
    /\ max_row_count = 0
    /\ ret = "none"
    /\ emitted = <<>>
    /\ calls = [barrier_rows |-> 0, after_interrupt |-> "none",
                first_after |-> "none"]

\* ------------------------------------------------------------- SortPermutation
SortInit ==
    /\ \/ /\ sort_order \in SortOrders
          /\ nullable \in Nullabilities(sort_order)
          /\ input \in Views(sort_order, nullable)
       \/ /\ nullable = <<FALSE, FALSE>>
          /\ input \in {Example1, Example2}
          /\ sort_order = AscAsc
       \/ /\ nullable = <<TRUE, FALSE>>
          /\ input = Example3
          /\ sort_order \in {<<Keys(<<1, d>>)>> : d \in BOOLEAN}
       \/ /\ nullable = <<FALSE, TRUE>>
          /\ sort_order \in ThreeKeys
          /\ input \in Views(sort_order, nullable)
    /\ permutation = Identity(RowCount(input))
    /\ source_ranges = <<Range(0, RowCount(input))>>
    /\ target_ranges = <<>>
    /\ col = 0
    /\ ridx = 1
    /\ pc = "loop"
    /\ CursorUnused
    /\ ExtUnused
    /\ ConcatUnused
    /\ MergerUnused

\* for (int i = 0; i < num_columns; ++i): the loop ends.
LoopExit ==
    /\ pc = "loop"
    /\ col >= NumColumns
    /\ pc' = "done"
    /\ UNCHANGED <<input, sort_order, nullable, permutation, source_ranges,
                   target_ranges, col, ridx>>
    /\ UNCHANGED <<cursorVars, restVars>>

\* The loop enters the body for key col.
ColumnStart ==
    /\ pc = "loop"
    /\ col < NumColumns
    /\ pc' = "column"
    /\ ridx' = 1
    /\ UNCHANGED <<input, sort_order, nullable, permutation, source_ranges,
                   target_ranges, col>>
    /\ UNCHANGED <<cursorVars, restVars>>

\* One iteration of SortColumnResolved's loop: SortRange on one source range.
SortRangeStep ==
    /\ pc = "column"
    /\ ridx <= Len(source_ranges)
    /\ \E o \in SortTypedColumn(input, sort_order[col + 1], source_ranges[ridx],
                                target_ranges, permutation, col = NumColumns - 1) :
          /\ permutation' = o.perm
          /\ target_ranges' = o.target
    /\ ridx' = ridx + 1
    /\ UNCHANGED <<input, sort_order, nullable, source_ranges, col, pc>>
    /\ UNCHANGED <<cursorVars, restVars>>

\* if (target_ranges->empty()) break;
ColumnBreak ==
    /\ pc = "column"
    /\ ridx > Len(source_ranges)
    /\ target_ranges = <<>>
    /\ pc' = "done"
    /\ UNCHANGED <<input, sort_order, nullable, permutation, source_ranges,
                   target_ranges, col, ridx>>
    /\ UNCHANGED <<cursorVars, restVars>>

\* std::swap(source_ranges, target_ranges); target_ranges->clear(); ++i
ColumnSwap ==
    /\ pc = "column"
    /\ ridx > Len(source_ranges)
    /\ target_ranges # <<>>
    /\ source_ranges' = target_ranges
    /\ target_ranges' = <<>>
    /\ col' = col + 1
    /\ pc' = "loop"
    /\ UNCHANGED <<input, sort_order, nullable, permutation, ridx>>
    /\ UNCHANGED <<cursorVars, restVars>>

SortNext == LoopExit \/ ColumnStart \/ SortRangeStep \/ ColumnBreak \/ ColumnSwap

SortSpec == SortInit /\ [][SortNext]_vars

\* ------------------------------------------------------------- the Sort cursor
Failures == {"INTERRUPTED", "CHILD_FAILURE", "TABLE_WRITE_FAILURE",
             "ERROR_MEMORY_EXCEEDED", "ERROR_TEMP_FILE_CREATION_ERROR",
             "SPILL_WRITE_FAILURE", "FINALIZE_FAILURE", "SCAN_VIEW_FAILURE",
             "FILE_INPUT_FAILURE", "MERGE_UNION_ALL_FAILURE"}

\* The operations that may fail: a run is over after its first failure.
Faults == {"child", "table_write", "temp_file", "spill_write", "finalize",
           "scan_view", "file_input", "merge_union_all"}

Min(a, b) == IF a < b THEN a ELSE b

Drop(s, k) == SubSeq(s, k + 1, Len(s))

Take(s, k) == SubSeq(s, 1, k)

\* The view of the rows a table holds.
TableView(rows) == [i \in 0..(Len(rows) - 1) |-> input[rows[i + 1]]]

\* UnbufferedSorter::SortView: the rows of a view read through the permutation
\* SortPermutation leaves (BoundScanViewWithSelection).
SortView(rows) ==
    {[i \in 1..Len(rows) |-> rows[perm[i - 1] + 1]] :
        perm \in SortPermutation(sort_order, TableView(rows))}

\* The file a failed FileInput was given: it was handed over with
\* delete_when_done, and is deleted.
FileInputFailed(files, id) == files \ {id}

\* The order MergeUnionAll merges by.
MergeRowLess(a, b) ==
    \E k \in DOMAIN sort_order :
        /\ IF sort_order[k].desc
           THEN Cell(input, sort_order[k], b) < Cell(input, sort_order[k], a)
           ELSE Cell(input, sort_order[k], a) < Cell(input, sort_order[k], b)
        /\ \A m \in 1..(k - 1) :
              Cell(input, sort_order[m], a) = Cell(input, sort_order[m], b)

\* BoundMergeUnionAll over sorted inputs: the least head is taken; of equal
\* heads, the one of the input with the lowest index.
RECURSIVE MergeUnionAll(_)
MergeUnionAll(inputs) ==
    LET live == {i \in DOMAIN inputs : inputs[i] # <<>>}
    IN IF live = {} THEN <<>>
       ELSE LET j == CHOOSE i \in live :
                        \A o \in live :
                            /\ ~MergeRowLess(inputs[o][1], inputs[i][1])
                            /\ o < i => MergeRowLess(inputs[i][1], inputs[o][1])
            IN <<inputs[j][1]>> \o
               MergeUnionAll([inputs EXCEPT ![j] = Tail(inputs[j])])

FileIds(buffers) == {buffers[i].id : i \in DOMAIN buffers}

\* Writer::WriteAll(sink) on the cursor: the outcomes
\* [failure, code, written, waiting]. When the cursor waits on a barrier,
\* WriteAll returns Success with is_waiting_on_barrier set: this is how
\* SortCursor::ProcessData reads it.
WriteAll(cursor) ==
    (IF "spill_write" \in fault
     THEN {[failure |-> TRUE, code |-> "SPILL_WRITE_FAILURE", written |-> k,
            waiting |-> FALSE] : k \in 0..Len(cursor.rows)}
     ELSE {})
    \cup {[failure |-> FALSE, code |-> "OK", written |-> Len(cursor.rows),
           waiting |-> cursor.waits]}

\* BasicMerger::AddSorted: the outcomes [code, file_buffers, disk, created] and
\* what was done on the way: [read, finalized, write_failed, finalize_failed,
\* waiting].
AddSortedLeavesFile(cursor, buffers, files, n) ==
    LET id == n + 1
        done(code, recorded, left) ==
            [code |-> code, file_buffers |-> recorded, disk |-> left,
             created |-> id, read |-> Len(cursor.rows), finalized |-> TRUE,
             write_failed |-> code = "SPILL_WRITE_FAILURE",
             finalize_failed |-> code = "FINALIZE_FAILURE", waiting |-> FALSE]
    IN (IF "temp_file" \in fault
        THEN {[done("ERROR_TEMP_FILE_CREATION_ERROR", buffers, files) EXCEPT
                  !.created = n, !.read = 0, !.finalized = FALSE]}
        ELSE {})
       \cup (IF "spill_write" \in fault
             THEN {done("SPILL_WRITE_FAILURE", buffers, files \cup {id})}
             ELSE {})
       \cup (IF "finalize" \in fault
             THEN {done("FINALIZE_FAILURE", buffers, files \cup {id})}
             ELSE {})
       \cup {done("OK", Append(buffers, [id |-> id, rows |-> cursor.rows]),
                  files \cup {id})}

AddSortedFinalizeFailureFirst(cursor, buffers, files, n) ==
    LET id == n + 1
    IN (IF "temp_file" \in fault
        THEN {[code |-> "ERROR_TEMP_FILE_CREATION_ERROR", file_buffers |-> buffers,
               disk |-> files, created |-> n, read |-> 0, finalized |-> FALSE,
               write_failed |-> FALSE, finalize_failed |-> FALSE,
               waiting |-> FALSE]}
        ELSE {})
       \cup UNION {
            {LET code == IF finalize_failed THEN "FINALIZE_FAILURE"
                         ELSE IF w.failure THEN w.code
                         ELSE "OK"
             IN [code |-> code,
                 file_buffers |->
                     IF code = "OK"
                     THEN Append(buffers,
                                 [id |-> id, rows |-> Take(cursor.rows, w.written)])
                     ELSE buffers,
                 disk |-> IF code = "OK" THEN files \cup {id}
                          ELSE (files \cup {id}) \ {id},
                 created |-> id, read |-> w.written, finalized |-> TRUE,
                 write_failed |-> w.failure, finalize_failed |-> finalize_failed,
                 waiting |-> w.waiting]
             : finalize_failed \in IF "finalize" \in fault THEN BOOLEAN ELSE {FALSE}}
            : w \in WriteAll(cursor)}

AddSorted(cursor, buffers, files, n) ==
    LET id == n + 1
    IN \* temp_file->get() == NULL: no file exists, and no Writer
       (IF "temp_file" \in fault
        THEN {[code |-> "ERROR_TEMP_FILE_CREATION_ERROR", file_buffers |-> buffers,
               disk |-> files, created |-> n, read |-> 0, finalized |-> FALSE,
               write_failed |-> FALSE, finalize_failed |-> FALSE,
               waiting |-> FALSE]}
        ELSE {})
       \cup UNION {
            IF w.failure /\ w.code = "WAITING_ON_BARRIER"
            THEN \* THROW ERROR_NOT_IMPLEMENTED: the FileRemover removes the file
                 {[code |-> "ERROR_NOT_IMPLEMENTED", file_buffers |-> buffers,
                   disk |-> (files \cup {id}) \ {id}, created |-> id,
                   read |-> w.written, finalized |-> FALSE,
                   write_failed |-> TRUE, finalize_failed |-> FALSE,
                   waiting |-> w.waiting]}
            ELSE \* file_sink->Finalize(), then PROPAGATE_ON_FAILURE of the write
                 \* and of the finalize; a failure leaves the file to the
                 \* FileRemover, which removes it
                 {LET code == IF w.failure THEN w.code
                              ELSE IF finalize_failed THEN "FINALIZE_FAILURE"
                              ELSE "OK"
                  IN [code |-> code,
                      \* file_buffers_.emplace_back(temp_file.release())
                      file_buffers |->
                          IF code = "OK"
                          THEN Append(buffers,
                                      [id |-> id,
                                       rows |-> Take(cursor.rows, w.written)])
                          ELSE buffers,
                      disk |-> IF code = "OK" THEN files \cup {id}
                               ELSE (files \cup {id}) \ {id},
                      created |-> id, read |-> w.written, finalized |-> TRUE,
                      write_failed |-> w.failure,
                      finalize_failed |-> finalize_failed,
                      waiting |-> w.waiting]
                  : finalize_failed \in
                        IF "finalize" \in fault THEN BOOLEAN ELSE {FALSE}}
            : w \in WriteAll(cursor)}

\* The loop of BasicMerger::Merge: FileInput on file_buffers_.back(), then
\* pop_back; opened holds the runs of merged_cursors and owned their files.
\* The outcomes [code, opened, owned, file_buffers, disk].
RECURSIVE MergeOpenFromFront(_, _, _, _)
MergeOpenFromFront(buffers, opened, owned, files) ==
    IF buffers = <<>>
    THEN {[code |-> "OK", opened |-> opened, owned |-> owned,
           file_buffers |-> buffers, disk |-> files]}
    ELSE (IF "file_input" \in fault
          THEN {[code |-> "FILE_INPUT_FAILURE", opened |-> <<>>, owned |-> {},
                 file_buffers |-> Tail(buffers),
                 disk |-> FileInputFailed(files, Head(buffers).id) \ owned]}
          ELSE {})
         \cup MergeOpenFromFront(Tail(buffers), Append(opened, Head(buffers).rows),
                                 owned \cup {Head(buffers).id}, files)

RECURSIVE MergeOpen(_, _, _, _)
MergeOpen(buffers, opened, owned, files) ==
    IF buffers = <<>>
    THEN {[code |-> "OK", opened |-> opened, owned |-> owned,
           file_buffers |-> buffers, disk |-> files]}
    ELSE LET back == buffers[Len(buffers)]
             rest == Take(buffers, Len(buffers) - 1)
         IN (IF "file_input" \in fault
             THEN \* merged_cursors is destroyed with the files it opened
                  {[code |-> "FILE_INPUT_FAILURE", opened |-> <<>>, owned |-> {},
                    file_buffers |-> rest,
                    disk |-> FileInputFailed(files, back.id) \ owned]}
             ELSE {})
            \cup MergeOpen(rest, Append(opened, back.rows), owned \cup {back.id},
                           files)

\* BasicMerger::Merge: the outcomes [code, cursor, file_buffers, disk], and
\* the rows of merged_cursors as BoundMergeUnionAll is given them.
MergeWithoutAdditional(buffers, additional, files) ==
    UNION {
        IF o.code # "OK"
        THEN {[code |-> o.code, cursor |-> NoCursor, merged_cursors |-> <<>>,
               file_buffers |-> o.file_buffers, disk |-> o.disk]}
        ELSE (IF "merge_union_all" \in fault
              THEN {[code |-> "MERGE_UNION_ALL_FAILURE", cursor |-> NoCursor,
                     merged_cursors |-> o.opened,
                     file_buffers |-> o.file_buffers, disk |-> o.disk \ o.owned]}
              ELSE {})
             \cup
             {[code |-> "OK",
               cursor |-> Cursor(MergeUnionAll(
                            o.opened),
                            o.owned \cup additional.files),
               merged_cursors |-> o.opened,
               file_buffers |-> o.file_buffers, disk |-> o.disk]}
        : o \in MergeOpen(buffers, <<>>, {}, files)}

Merge(buffers, additional, files) ==
    UNION {
        IF o.code # "OK"
        THEN {[code |-> o.code, cursor |-> NoCursor, merged_cursors |-> <<>>,
               file_buffers |-> o.file_buffers, disk |-> o.disk]}
        ELSE LET \* the additional cursor is the last source
                 merged_cursors ==
                     o.opened \o (IF additional.set THEN <<additional.rows>>
                                  ELSE <<>>)
             IN (IF "merge_union_all" \in fault
                 THEN {[code |-> "MERGE_UNION_ALL_FAILURE", cursor |-> NoCursor,
                        merged_cursors |-> merged_cursors,
                        file_buffers |-> o.file_buffers,
                        disk |-> o.disk \ o.owned]}
                 ELSE {})
                \cup
                {[code |-> "OK",
                  cursor |-> Cursor(MergeUnionAll(merged_cursors),
                                    o.owned \cup additional.files),
                  merged_cursors |-> merged_cursors,
                  file_buffers |-> o.file_buffers, disk |-> o.disk]}
        : o \in MergeOpen(buffers, <<>>, {}, files)}

\* UnbufferedSorter::Write: the outcomes [code, file_buffers, disk, created].
UnbufferedSorterWrite(rows, buffers, files, n) ==
    (IF "scan_view" \in fault
     THEN {[code |-> "SCAN_VIEW_FAILURE", file_buffers |-> buffers, disk |-> files,
            created |-> n]}
     ELSE {})
    \cup UNION {AddSorted(SortedCursor(sorted, FALSE, <<>>), buffers, files, n) :
                    sorted \in SortView(rows)}

\* BufferingSorter::Flush: the outcomes
\* [code, memory_buffer, file_buffers, disk, created].
FlushKeepsRows(buffer, buffers, files, n) ==
    IF Len(buffer) > 0
    THEN {[code |-> o.code, memory_buffer |-> buffer,
           file_buffers |-> o.file_buffers, disk |-> o.disk, created |-> o.created] :
          o \in UnbufferedSorterWrite(buffer, buffers, files, n)}
    ELSE {[code |-> "OK", memory_buffer |-> buffer, file_buffers |-> buffers,
           disk |-> files, created |-> n]}

Flush(buffer, buffers, files, n) ==
    IF Len(buffer) > 0
    THEN {[code |-> o.code,
           \* memory_buffer_->Clear()
           memory_buffer |-> IF o.code = "OK" THEN <<>> ELSE buffer,
           file_buffers |-> o.file_buffers, disk |-> o.disk, created |-> o.created] :
          o \in UnbufferedSorterWrite(buffer, buffers, files, n)}
    ELSE {[code |-> "OK", memory_buffer |-> buffer, file_buffers |-> buffers,
           disk |-> files, created |-> n]}

\* The memory a row takes in the table: the cells of the key column are of
\* variable length, and the value 2 is the long one.
RowSize(r) == IF input[r][1] = 2 THEN 2 ELSE 1

RECURSIVE TableUsage(_)
TableUsage(rows) ==
    IF rows = <<>> THEN 0 ELSE RowSize(Head(rows)) + TableUsage(Tail(rows))

\* The leading rows of data that fit into the memory available.
RECURSIVE RowsThatFit(_, _)
RowsThatFit(available, data) ==
    IF data = <<>> \/ RowSize(Head(data)) > available THEN 0
    ELSE 1 + RowsThatFit(available - RowSize(Head(data)), Tail(data))

\* TableSink::Write: the rows of the view the table takes, under the quota of
\* materialization_allocator_.
TableAccepts(buffer, data) == RowsThatFit(capacity - TableUsage(buffer), data)

\* BufferingSorter::Write: the outcomes
\* [code, written, memory_buffer, file_buffers, disk, created].
BufferingSorterWrite(data, buffer, buffers, files, n) ==
    LET same(code) == [code |-> code, written |-> 0,
                       memory_buffer |-> buffer, file_buffers |-> buffers,
                       disk |-> files, created |-> n]
        first == TableAccepts(buffer, data)
    IN (IF "table_write" \in fault THEN {same("TABLE_WRITE_FAILURE")} ELSE {})
       \cup
       IF first > 0
       THEN {[same("OK") EXCEPT !.written = first,
                                !.memory_buffer = buffer \o Take(data, first)]}
       ELSE \* Didn't manage to write anything: flush and try writing again.
            {LET second == TableAccepts(f.memory_buffer, data)
                 flushed == [code |-> f.code, written |-> 0,
                             memory_buffer |-> f.memory_buffer,
                             file_buffers |-> f.file_buffers,
                             disk |-> f.disk, created |-> f.created]
             IN IF f.code # "OK" THEN flushed
                ELSE IF second > 0
                THEN [flushed EXCEPT !.written = second,
                         !.memory_buffer = f.memory_buffer \o Take(data, second)]
                ELSE [flushed EXCEPT !.code = "ERROR_MEMORY_EXCEEDED"] :
             f \in Flush(buffer, buffers, files, n)}

\* BufferingSorter::GetResultCursor: the outcomes
\* [code, cursor, file_buffers, disk].
GetResultCursorAlwaysMerges(buffer, buffers, files) ==
    (IF "scan_view" \in fault
     THEN {[code |-> "SCAN_VIEW_FAILURE", cursor |-> NoCursor,
            file_buffers |-> buffers, disk |-> files]}
     ELSE {})
    \cup UNION {Merge(buffers, Cursor(last_sorted, {}), files)
                : last_sorted \in SortView(buffer)}

GetResultCursor(buffer, buffers, files) ==
    (IF "scan_view" \in fault
     THEN {[code |-> "SCAN_VIEW_FAILURE", cursor |-> NoCursor,
            file_buffers |-> buffers, disk |-> files]}
     ELSE {})
    \cup UNION {
        \* UnbufferedSorter::GetResultCursorMergedWith
        IF buffers = <<>>
        THEN {[code |-> "OK", cursor |-> Cursor(last_sorted, {}),
               file_buffers |-> buffers, disk |-> files]}
        ELSE Merge(buffers, Cursor(last_sorted, {}), files)
        : last_sorted \in SortView(buffer)}

\* ------------------------------------------------------------- SortCursor
InputRows == RowCount(input)

SortUnused ==
    /\ permutation = <<>>
    /\ source_ranges = <<>>
    /\ target_ranges = <<>>
    /\ col = 0
    /\ ridx = 1
    /\ pc = "unused"

\* The key cells of the child's rows.
CursorCells(isNullable) == IF isNullable THEN {Null, 1} ELSE Values

CursorOrders == {<<Keys(<<1, d>>)>> : d \in BOOLEAN}

\* The state after SortCursor's constructor, with the operations that may fail.
CursorStart(faults) ==
    /\ sort_order \in CursorOrders
    /\ nullable \in Nullabilities(sort_order)
    /\ input \in UNION {[0..(n - 1) -> {<<a, 1>> : a \in CursorCells(nullable[1])}] :
                        n \in 0..MaxInput}
    /\ capacity \in 0..MaxInput
    /\ barrier_supported \in BOOLEAN
    /\ fault = faults
    /\ SortUnused
    /\ ExtUnused
    /\ ConcatUnused
    /\ MergerUnused
    /\ child_pos = 0
    /\ child_interrupted = FALSE
    /\ writer = [eos |-> FALSE, waiting |-> FALSE, pending |-> <<>>]
    /\ memory_buffer = <<>>
    /\ file_buffers = <<>>
    /\ disk = {}
    /\ created = 0
    /\ sorter_result = NoCursor
    /\ result = NoCursor
    /\ cpc = "idle"
    /\ ipc = "none"
    /\ max_row_count = 0
    /\ ret = "none"
    /\ emitted = <<>>
    /\ calls = [barrier_rows |-> 0, after_interrupt |-> "none",
                first_after |-> "none"]

CursorInit == CursorStart(Faults)

configVars == <<input, sort_order, nullable, sortVars, restVars, capacity,
                barrier_supported, fault>>

\* Next returns code to its caller.
Return(code) ==
    /\ ret' = code
    /\ cpc' = "idle"
    /\ max_row_count' = 0

\* The history of a Next call that returns code.
Returned(code) ==
    IF calls.after_interrupt = "running"
    THEN [calls EXCEPT !.after_interrupt = "done", !.first_after = code]
    ELSE calls

\* SortCursor::Next is entered: if (result_.get() == NULL) ProcessData() ...
NextBeginAlwaysProcess(m) ==
    /\ cpc = "idle"
    /\ ret \notin Failures
    /\ max_row_count' = m
    /\ cpc' = "process"
    /\ calls' = IF ipc = "returned" /\ calls.after_interrupt = "none"
                THEN [calls EXCEPT !.after_interrupt = "running"]
                ELSE calls
    /\ UNCHANGED <<configVars, child_pos, child_interrupted, writer, memory_buffer,
                   file_buffers, disk, created, sorter_result, result, ipc, ret,
                   emitted>>

NextBeginDrainsAfterEos(m) ==
    /\ cpc = "idle"
    /\ ret \notin Failures
    /\ max_row_count' = m
    /\ cpc' = IF result.set /\ ret # "EOS" THEN "result" ELSE "process"
    /\ calls' = IF ipc = "returned" /\ calls.after_interrupt = "none"
                THEN [calls EXCEPT !.after_interrupt = "running"]
                ELSE calls
    /\ UNCHANGED <<configVars, child_pos, child_interrupted, writer, memory_buffer,
                   file_buffers, disk, created, sorter_result, result, ipc, ret,
                   emitted>>

NextBegin(m) ==
    /\ cpc = "idle"
    /\ ret \notin Failures
    /\ max_row_count' = m
    /\ cpc' = IF result.set THEN "result" ELSE "process"
    /\ calls' = IF ipc = "returned" /\ calls.after_interrupt = "none"
                THEN [calls EXCEPT !.after_interrupt = "running"]
                ELSE calls
    /\ UNCHANGED <<configVars, child_pos, child_interrupted, writer, memory_buffer,
                   file_buffers, disk, created, sorter_result, result, ipc, ret,
                   emitted>>

\* ProcessData, while (!writer_.is_eos()): WriteAll asks the child for rows.
ReadsChild ==
    /\ cpc = "process"
    /\ ~writer.eos
    /\ writer.pending = <<>>

\* The child was interrupted: its Next fails, and so do WriteAll and Next.
ChildInterrupted ==
    /\ ReadsChild
    /\ child_interrupted
    /\ Return("INTERRUPTED")
    /\ calls' = Returned("INTERRUPTED")
    /\ UNCHANGED <<configVars, child_pos, child_interrupted, writer, memory_buffer,
                   file_buffers, disk, created, sorter_result, result, ipc, emitted>>

ChildFails ==
    /\ ReadsChild
    /\ ~child_interrupted
    /\ "child" \in fault
    /\ Return("CHILD_FAILURE")
    /\ calls' = Returned("CHILD_FAILURE")
    /\ UNCHANGED <<configVars, child_pos, child_interrupted, writer, memory_buffer,
                   file_buffers, disk, created, sorter_result, result, ipc, emitted>>

\* The child returns WaitingOnBarrier: WriteAll succeeds with
\* is_waiting_on_barrier set, ProcessData returns Success with result_ NULL,
\* and Next returns WaitingOnBarrier.
ChildBarrierDropsBuffer ==
    /\ ReadsChild
    /\ ~child_interrupted
    /\ barrier_supported
    /\ writer' = [writer EXCEPT !.waiting = TRUE]
    /\ memory_buffer' = <<>>
    /\ Return("WAITING_ON_BARRIER")
    /\ calls' = [Returned("WAITING_ON_BARRIER") EXCEPT
                    !.barrier_rows = IF child_pos > calls.barrier_rows
                                     THEN child_pos ELSE calls.barrier_rows]
    /\ UNCHANGED <<configVars, child_pos, child_interrupted, file_buffers, disk,
                   created, sorter_result, result, ipc, emitted>>

ChildBarrierNotWaiting ==
    /\ ReadsChild
    /\ ~child_interrupted
    /\ barrier_supported
    /\ Return("WAITING_ON_BARRIER")
    /\ calls' = [Returned("WAITING_ON_BARRIER") EXCEPT
                    !.barrier_rows = IF child_pos > calls.barrier_rows
                                     THEN child_pos ELSE calls.barrier_rows]
    /\ UNCHANGED <<configVars, child_pos, child_interrupted, writer, memory_buffer,
                   file_buffers, disk, created, sorter_result, result, ipc, emitted>>

ChildBarrier ==
    /\ ReadsChild
    /\ ~child_interrupted
    /\ barrier_supported
    /\ writer' = [writer EXCEPT !.waiting = TRUE]
    /\ Return("WAITING_ON_BARRIER")
    /\ calls' = [Returned("WAITING_ON_BARRIER") EXCEPT
                    !.barrier_rows = IF child_pos > calls.barrier_rows
                                     THEN child_pos ELSE calls.barrier_rows]
    /\ UNCHANGED <<configVars, child_pos, child_interrupted, memory_buffer,
                   file_buffers, disk, created, sorter_result, result, ipc, emitted>>

\* The child returns a view of k rows.
ChildRows ==
    /\ ReadsChild
    /\ ~child_interrupted
    /\ child_pos < InputRows
    /\ \E k \in 1..Min(MaxBatch, InputRows - child_pos) :
          /\ writer' = [writer EXCEPT !.waiting = FALSE,
                           !.pending = [i \in 1..k |-> child_pos + i - 1]]
          /\ child_pos' = child_pos + k
    /\ cpc' = "write"
    /\ UNCHANGED <<configVars, child_interrupted, memory_buffer, file_buffers, disk,
                   created, sorter_result, result, ipc, max_row_count, ret, emitted,
                   calls>>

\* The child returns EOS: the loop of ProcessData ends.
ChildEos ==
    /\ ReadsChild
    /\ ~child_interrupted
    /\ child_pos = InputRows
    /\ writer' = [writer EXCEPT !.waiting = FALSE, !.eos = TRUE]
    /\ cpc' = "result_cursor"
    /\ UNCHANGED <<configVars, child_pos, child_interrupted, memory_buffer,
                   file_buffers, disk, created, sorter_result, result, ipc,
                   max_row_count, ret, emitted, calls>>

\* WriteAll hands the rows it holds to the SorterSink: BufferingSorter::Write.
SorterWriteEndsDrain ==
    /\ cpc = "write"
    /\ \E o \in BufferingSorterWrite(writer.pending, memory_buffer, file_buffers,
                                     disk, created) :
          /\ memory_buffer' = o.memory_buffer
          /\ file_buffers' = o.file_buffers
          /\ disk' = o.disk
          /\ created' = o.created
          /\ IF o.code = "OK"
             THEN /\ writer' = [writer EXCEPT !.pending = Drop(writer.pending, o.written)]
                  /\ cpc' = IF o.written = Len(writer.pending) THEN "result_cursor"
                            ELSE "write"
                  /\ UNCHANGED <<ret, max_row_count, calls>>
             ELSE /\ writer' = writer
                  /\ Return(o.code)
                  /\ calls' = Returned(o.code)
    /\ UNCHANGED <<configVars, child_pos, child_interrupted, sorter_result, result,
                   ipc, emitted>>

SorterWrite ==
    /\ cpc = "write"
    /\ \E o \in BufferingSorterWrite(writer.pending, memory_buffer, file_buffers,
                                     disk, created) :
          /\ memory_buffer' = o.memory_buffer
          /\ file_buffers' = o.file_buffers
          /\ disk' = o.disk
          /\ created' = o.created
          /\ IF o.code = "OK"
             THEN /\ writer' = [writer EXCEPT !.pending = Drop(writer.pending, o.written)]
                  /\ cpc' = IF o.written = Len(writer.pending) THEN "process" ELSE "write"
                  /\ UNCHANGED <<ret, max_row_count, calls>>
             ELSE /\ writer' = writer
                  /\ Return(o.code)
                  /\ calls' = Returned(o.code)
    /\ UNCHANGED <<configVars, child_pos, child_interrupted, sorter_result, result,
                   ipc, emitted>>

\* ProcessData after the loop: sorter_sink_.Finalize(), sorter_->GetResultCursor().
SorterGetResultCursorUnchecked ==
    /\ cpc = "result_cursor"
    /\ \E o \in GetResultCursor(memory_buffer, file_buffers, disk) :
          /\ file_buffers' = o.file_buffers
          /\ disk' = o.disk
          /\ sorter_result' = o.cursor
          \* the table and its allocators move into last_sorted_owning
          /\ memory_buffer' = IF o.code = "SCAN_VIEW_FAILURE" THEN memory_buffer
                              ELSE <<>>
          /\ cpc' = "set_result"
          /\ UNCHANGED <<ret, max_row_count, calls>>
    /\ UNCHANGED <<configVars, child_pos, child_interrupted, writer, created, result,
                   ipc, emitted>>

SorterGetResultCursor ==
    /\ cpc = "result_cursor"
    /\ \E o \in GetResultCursor(memory_buffer, file_buffers, disk) :
          /\ file_buffers' = o.file_buffers
          /\ disk' = o.disk
          /\ sorter_result' = o.cursor
          \* the table and its allocators move into last_sorted_owning
          /\ memory_buffer' = IF o.code = "SCAN_VIEW_FAILURE" THEN memory_buffer
                              ELSE <<>>
          /\ IF o.code = "OK"
             THEN /\ cpc' = "set_result"
                  /\ UNCHANGED <<ret, max_row_count, calls>>
             ELSE /\ Return(o.code)
                  /\ calls' = Returned(o.code)
    /\ UNCHANGED <<configVars, child_pos, child_interrupted, writer, created, result,
                   ipc, emitted>>

\* SetResultWithProjection: result_ = BoundProject(...).
SetResultWithProjection ==
    /\ cpc = "set_result"
    /\ result' = sorter_result
    /\ sorter_result' = NoCursor
    /\ cpc' = "result"
    /\ UNCHANGED <<configVars, child_pos, child_interrupted, writer, memory_buffer,
                   file_buffers, disk, created, ipc, max_row_count, ret, emitted,
                   calls>>

\* return result_->Next(max_row_count), on an interrupted cursor.
ResultInterrupted ==
    /\ cpc = "result"
    /\ result.interrupted
    /\ Return("INTERRUPTED")
    /\ calls' = Returned("INTERRUPTED")
    /\ UNCHANGED <<configVars, child_pos, child_interrupted, writer, memory_buffer,
                   file_buffers, disk, created, sorter_result, result, ipc, emitted>>

\* return result_->Next(max_row_count), with rows left: a view of k rows.
ResultRowsDefaultRowCount ==
    /\ cpc = "result"
    /\ ~result.interrupted
    /\ result.pos < Len(result.rows)
    /\ \E k \in 1..Min(MaxBatch, Len(result.rows) - result.pos) :
          /\ emitted' = emitted \o SubSeq(result.rows, result.pos + 1, result.pos + k)
          /\ result' = [result EXCEPT !.pos = result.pos + k]
    /\ Return("ROWS")
    /\ calls' = Returned("ROWS")
    /\ UNCHANGED <<configVars, child_pos, child_interrupted, writer, memory_buffer,
                   file_buffers, disk, created, sorter_result, ipc>>

ResultRows ==
    /\ cpc = "result"
    /\ ~result.interrupted
    /\ result.pos < Len(result.rows)
    /\ \E k \in 1..Min(max_row_count, Len(result.rows) - result.pos) :
          /\ emitted' = emitted \o SubSeq(result.rows, result.pos + 1, result.pos + k)
          /\ result' = [result EXCEPT !.pos = result.pos + k]
    /\ Return("ROWS")
    /\ calls' = Returned("ROWS")
    /\ UNCHANGED <<configVars, child_pos, child_interrupted, writer, memory_buffer,
                   file_buffers, disk, created, sorter_result, ipc>>

\* return result_->Next(max_row_count), with no rows left.
ResultEos ==
    /\ cpc = "result"
    /\ ~result.interrupted
    /\ result.pos = Len(result.rows)
    /\ Return("EOS")
    /\ calls' = Returned("EOS")
    /\ UNCHANGED <<configVars, child_pos, child_interrupted, writer, memory_buffer,
                   file_buffers, disk, created, sorter_result, result, ipc, emitted>>

\* SortCursor::Interrupt, called by another thread: writer_.Interrupt().
InterruptWriter ==
    /\ ipc = "none"
    /\ cpc # "destroyed"
    /\ child_interrupted' = TRUE
    /\ ipc' = "writer_interrupted"
    /\ UNCHANGED <<configVars, child_pos, writer, memory_buffer, file_buffers, disk,
                   created, sorter_result, result, cpc, max_row_count, ret, emitted,
                   calls>>

\* SortCursor::Interrupt: if (result_ != NULL) result_->Interrupt(). The read of
\* result_ is not ordered with the assignment in SetResultWithProjection.
InterruptResult ==
    /\ ipc = "writer_interrupted"
    /\ result' = IF result.set THEN [result EXCEPT !.interrupted = TRUE] ELSE result
    /\ ipc' = "returned"
    /\ UNCHANGED <<configVars, child_pos, child_interrupted, writer, memory_buffer,
                   file_buffers, disk, created, sorter_result, cpc, max_row_count,
                   ret, emitted, calls>>

\* The cursor is destroyed: the result cursor and the merger delete their files.
Destroy ==
    /\ cpc = "idle"
    /\ ipc # "writer_interrupted"
    /\ cpc' = "destroyed"
    /\ disk' = disk \ (result.files \cup FileIds(file_buffers))
    /\ UNCHANGED <<configVars, child_pos, child_interrupted, writer, memory_buffer,
                   file_buffers, created, sorter_result, result, ipc, max_row_count,
                   ret, emitted, calls>>

CursorNext ==
    \/ \E m \in 1..MaxBatch : NextBegin(m)
    \/ ChildFails
    \/ ChildBarrier
    \/ ChildRows
    \/ ChildEos
    \/ SorterWrite
    \/ SorterGetResultCursor
    \/ SetResultWithProjection
    \/ ResultRows
    \/ ResultEos
    \/ Destroy

\* The cursor used by one thread.
CursorSpec == CursorInit /\ [][CursorNext]_vars

\* The cursor with a second thread that calls Interrupt.
InterruptInit == CursorStart({"child"})

InterruptNext ==
    \/ \E m \in 1..MaxBatch : NextBegin(m)
    \/ ChildInterrupted
    \/ ChildFails
    \/ ChildBarrier
    \/ ChildRows
    \/ ChildEos
    \/ SorterWrite
    \/ SorterGetResultCursor
    \/ SetResultWithProjection
    \/ ResultInterrupted
    \/ ResultRows
    \/ ResultEos
    \/ InterruptWriter
    \/ InterruptResult
    \/ Destroy

InterruptSpec == InterruptInit /\ [][InterruptNext]_vars

\* ------------------------------------------------------------- BoundExtendedSort
\* A STRING cell is a sequence of bytes; an INT32 cell is a number.
ToUpperChar(c) == IF c \in 97..122 THEN c - 32 ELSE c

ToUpper(s) == [i \in DOMAIN s |-> ToUpperChar(s[i])]

\* operator< of StringPiece: byte by byte, a prefix is less.
RECURSIVE StringLess(_, _)
StringLess(s, t) ==
    IF t = <<>> THEN FALSE
    ELSE IF s = <<>> THEN TRUE
    ELSE IF Head(s) # Head(t) THEN Head(s) < Head(t)
    ELSE StringLess(Tail(s), Tail(t))

\* Attribute names are sequences of tokens; StrCat appends.
kBaseTemporaryAttributeName == <<"tmp_uppercase_version_of_">>

StrCat(a, b) == a \o b

AttributeNames(sch) == {sch[i].name : i \in DOMAIN sch}

\* CreateUniqueName: the base name, or the base name with the first suffix
\* that makes it differ from the names of the schema and the names given.
RECURSIVE UniqueNameFrom(_, _, _)
UniqueNameFrom(taken, base, n) ==
    LET candidate == IF n = 0 THEN base ELSE Append(base, n)
    IN IF candidate \notin taken THEN candidate
       ELSE UniqueNameFrom(taken, base, n + 1)

CreateUniqueName(sch, used, base) ==
    UniqueNameFrom(AttributeNames(sch) \cup used, base, 0)

\* TupleSchema::LookupAttributePosition, 0-based, and LookupAttribute.
LookupAttributePosition(sch, name) ==
    (CHOOSE i \in DOMAIN sch : sch[i].name = name) - 1

LookupAttribute(sch, name) == sch[LookupAttributePosition(sch, name) + 1]

KeysSize == Len(specification.keys)

\* keys(i), with i 0-based.
KeyAt(i) == specification.keys[i + 1]

\* !keys(i).case_sensitive() && LookupAttribute(attribute_name).type() == STRING
IsCaseInsensitiveStringAnyType(key) == ~key.case_sensitive

IsCaseInsensitiveString(key) ==
    /\ ~key.case_sensitive
    /\ LookupAttribute(schema, key.attribute_name).type = "STRING"

Failure(code) == [code |-> code, rows |-> <<>>, schema |-> <<>>]

\* The expressions of compute_argument.
AttributeAt(i) == [op |-> "attribute", position |-> i, name |-> <<>>]

AliasToUpper(alias, position) == [op |-> "toupper", position |-> position, name |-> alias]

\* The schema BoundCompute's cursor has, and its rows.
ComputeSchema(sch, arguments) ==
    [j \in DOMAIN arguments |->
        IF arguments[j].op = "attribute" THEN sch[arguments[j].position + 1]
        ELSE [name |-> arguments[j].name, type |-> "STRING"]]

ComputeRows(data, arguments) ==
    [r \in DOMAIN data |->
        [j \in DOMAIN arguments |->
            IF arguments[j].op = "attribute" THEN data[r][arguments[j].position + 1]
            ELSE ToUpper(data[r][arguments[j].position + 1])]]

\* A cell as SortPermutation's comparator sees it: strings by their place in
\* the order of StringLess.
CellRank(sch, data, r, j) ==
    IF sch[j].type = "STRING"
    THEN 1 + Cardinality({q \in DOMAIN data : StringLess(data[q][j], data[r][j])})
    ELSE data[r][j]

RankedView(sch, data) ==
    [r \in 0..(Len(data) - 1) |-> [j \in DOMAIN sch |-> CellRank(sch, data, r + 1, j)]]

Project(projector, row) == [j \in DOMAIN projector |-> row[projector[j] + 1]]

\* BoundSort: the rows in an order SortPermutation leaves, projected.
BoundSort(order, projector, sch, data) ==
    {[code |-> "OK",
      rows |-> [i \in DOMAIN data |-> Project(projector, data[perm[i - 1] + 1])],
      schema |-> Project(projector, sch)] :
        perm \in SortPermutation(order, RankedView(sch, data))}

\* BoundLimit(offset, limit, cursor).
BoundLimit(offset, limit, cursor) ==
    [cursor EXCEPT !.rows = SubSeq(cursor.rows, offset + 1,
                                   Min(Len(cursor.rows), offset + limit))]

\* The child cursors and specifications BoundExtendedSort is called with.
NameA == <<"a">>

NameB == <<"b">>

NameASuffixed == Append(NameA, 1)

SchemaString == <<[name |-> NameA, type |-> "STRING"]>>

SchemaStringInt ==
    <<[name |-> NameA, type |-> "STRING"], [name |-> NameB, type |-> "INT32"]>>

\* A child that has an attribute with the name the uppercase of a would get.
SchemaTaken ==
    <<[name |-> NameA, type |-> "STRING"],
      [name |-> StrCat(kBaseTemporaryAttributeName, NameA), type |-> "STRING"],
      [name |-> NameASuffixed, type |-> "STRING"]>>

StringCells == {<<97>>, <<65>>, <<98>>}

IntCells == {1, 2}

TypeCells(type) == IF type = "STRING" THEN StringCells ELSE IntCells

RECURSIVE RowsOf(_)
RowsOf(sch) ==
    IF sch = <<>> THEN {<<>>}
    ELSE {Append(row, cell) : row \in RowsOf(SubSeq(sch, 1, Len(sch) - 1)),
                              cell \in TypeCells(sch[Len(sch)].type)}

ChildRowsOf(sch, most) == UNION {[1..n -> RowsOf(sch)] : n \in 0..most}

\* "banana", "Apple", "cherry", "apple"
FruitRows ==
    <<<<<<98, 97, 110, 97, 110, 97>>>>, <<<<65, 112, 112, 108, 101>>>>,
      <<<<99, 104, 101, 114, 114, 121>>>>, <<<<97, 112, 112, 108, 101>>>>>>

SortKeys(sch, directions) ==
    [attribute_name : AttributeNames(sch), case_sensitive : BOOLEAN,
     desc : directions]

KeySequences(sch) ==
    {<<>>} \cup {<<k>> : k \in SortKeys(sch, BOOLEAN)}
           \cup {<<k, l>> : k \in SortKeys(sch, BOOLEAN), l \in SortKeys(sch, {FALSE})}

Specifications(sch) ==
    [keys : KeySequences(sch), has_limit : {FALSE}, limit : {0}]
        \cup [keys : KeySequences(sch), has_limit : {TRUE},
              limit : {0, 1, MaxChildRows + 1}]

ExtStart ==
    /\ insensitive_paths = {}
    /\ sensitive_paths = {}
    /\ uppercase_version_position = <<>>
    /\ uppercase_names = {}
    /\ compute_argument = <<>>
    /\ keys_projector = <<>>
    /\ ki = 0
    /\ epc = "check"
    /\ final_cursor = Pending
    /\ input = <<>>
    /\ sort_order = <<>>
    /\ nullable = <<FALSE, FALSE, FALSE, FALSE, FALSE, FALSE>>
    /\ SortUnused
    /\ CursorUnused
    /\ ConcatUnused
    /\ MergerUnused

\* BoundExtendedSort is entered.
ExtInit ==
    /\ \/ /\ schema \in {SchemaString, SchemaStringInt}
          /\ child_rows \in ChildRowsOf(schema, MaxChildRows)
          /\ specification \in Specifications(schema)
          /\ result_projector \in
                IF specification.has_limit THEN {NoProjector}
                ELSE {NoProjector,
                      [given |-> TRUE,
                       positions |-> [j \in DOMAIN schema |-> Len(schema) - j]]}
       \/ /\ schema = SchemaTaken
          /\ child_rows \in ChildRowsOf(schema, 1)
          /\ specification \in
                {sp \in Specifications(schema) :
                    /\ ~sp.has_limit
                    /\ \A i \in DOMAIN sp.keys :
                          ~sp.keys[i].case_sensitive /\ ~sp.keys[i].desc}
          /\ result_projector = NoProjector
       \/ /\ schema = SchemaString
          /\ child_rows = FruitRows
          /\ specification \in
                {sp \in Specifications(schema) : Len(sp.keys) = 1 /\ ~sp.has_limit}
          /\ result_projector = NoProjector
    /\ ExtStart

extConfig == <<input, sort_order, nullable, sortVars, cursorVars, concatVars,
               mergerVars, specification, result_projector>>

\* The duplicate check, for keys(ki).
CheckKeyInsensitiveUnchecked ==
    /\ epc = "check"
    /\ ki < KeysSize
    /\ LET name == KeyAt(ki).attribute_name
       IN IF IsCaseInsensitiveString(KeyAt(ki))
          THEN IF FALSE
               THEN /\ final_cursor' = Failure("ERROR_INVALID_ARGUMENT_VALUE")
                    /\ epc' = "done"
                    /\ UNCHANGED <<insensitive_paths, sensitive_paths, ki>>
               ELSE /\ insensitive_paths' = insensitive_paths \cup {name}
                    /\ ki' = ki + 1
                    /\ UNCHANGED <<sensitive_paths, epc, final_cursor>>
          ELSE IF name \in sensitive_paths
               THEN /\ final_cursor' = Failure("ERROR_INVALID_ARGUMENT_VALUE")
                    /\ epc' = "done"
                    /\ UNCHANGED <<insensitive_paths, sensitive_paths, ki>>
               ELSE /\ sensitive_paths' = sensitive_paths \cup {name}
                    /\ ki' = ki + 1
                    /\ UNCHANGED <<insensitive_paths, epc, final_cursor>>
    /\ UNCHANGED <<extConfig, schema, child_rows, uppercase_version_position,
                   uppercase_names, compute_argument, keys_projector>>

CheckKey ==
    /\ epc = "check"
    /\ ki < KeysSize
    /\ LET name == KeyAt(ki).attribute_name
       IN IF IsCaseInsensitiveString(KeyAt(ki))
          THEN IF name \in insensitive_paths
               THEN /\ final_cursor' = Failure("ERROR_INVALID_ARGUMENT_VALUE")
                    /\ epc' = "done"
                    /\ UNCHANGED <<insensitive_paths, sensitive_paths, ki>>
               ELSE /\ insensitive_paths' = insensitive_paths \cup {name}
                    /\ ki' = ki + 1
                    /\ UNCHANGED <<sensitive_paths, epc, final_cursor>>
          ELSE IF name \in sensitive_paths
               THEN /\ final_cursor' = Failure("ERROR_INVALID_ARGUMENT_VALUE")
                    /\ epc' = "done"
                    /\ UNCHANGED <<insensitive_paths, sensitive_paths, ki>>
               ELSE /\ sensitive_paths' = sensitive_paths \cup {name}
                    /\ ki' = ki + 1
                    /\ UNCHANGED <<insensitive_paths, epc, final_cursor>>
    /\ UNCHANGED <<extConfig, schema, child_rows, uppercase_version_position,
                   uppercase_names, compute_argument, keys_projector>>

\* No duplicate: compute_argument gets AttributeAt(i) for every attribute.
CheckDone ==
    /\ epc = "check"
    /\ ki = KeysSize
    /\ compute_argument' = [j \in DOMAIN schema |-> AttributeAt(j - 1)]
    /\ ki' = 0
    /\ epc' = "uppercase"
    /\ UNCHANGED <<extConfig, schema, child_rows, insensitive_paths, sensitive_paths,
                   uppercase_version_position, uppercase_names, keys_projector,
                   final_cursor>>

\* The loop that adds the uppercase columns, for keys(ki).
UppercaseKey ==
    /\ epc = "uppercase"
    /\ ki < KeysSize
    /\ LET attribute_name == KeyAt(ki).attribute_name
           temporary_attribute_name ==
               CreateUniqueName(schema, uppercase_names,
                                StrCat(kBaseTemporaryAttributeName, attribute_name))
       IN IF /\ IsCaseInsensitiveString(KeyAt(ki))
             /\ \A e \in DOMAIN uppercase_version_position :
                   uppercase_version_position[e].name # attribute_name
          THEN /\ uppercase_names' = uppercase_names \cup {temporary_attribute_name}
               /\ uppercase_version_position' =
                     Append(uppercase_version_position,
                            [name |-> attribute_name,
                             position |-> Len(compute_argument)])
               /\ compute_argument' =
                     Append(compute_argument,
                            AliasToUpper(temporary_attribute_name,
                                         LookupAttributePosition(schema,
                                                                 attribute_name)))
          ELSE UNCHANGED <<uppercase_names, uppercase_version_position,
                           compute_argument>>
    /\ ki' = ki + 1
    /\ UNCHANGED <<extConfig, schema, child_rows, insensitive_paths, sensitive_paths,
                   keys_projector, epc, final_cursor>>

\* child = BoundCompute(...)
Compute ==
    /\ epc = "uppercase"
    /\ ki = KeysSize
    /\ schema' = ComputeSchema(schema, compute_argument)
    /\ child_rows' = ComputeRows(child_rows, compute_argument)
    /\ ki' = 0
    /\ epc' = "keys"
    /\ UNCHANGED <<extConfig, insensitive_paths, sensitive_paths,
                   uppercase_version_position, uppercase_names, compute_argument,
                   keys_projector, final_cursor>>

UppercasePosition(name) ==
    (CHOOSE e \in {uppercase_version_position[i] :
                      i \in DOMAIN uppercase_version_position} : e.name = name).position

\* The loop that fills keys_projector, for keys(ki).
KeysProjectorAddOriginal ==
    /\ epc = "keys"
    /\ ki < KeysSize
    /\ keys_projector' =
          Append(keys_projector,
                 LookupAttributePosition(schema, KeyAt(ki).attribute_name))
    /\ ki' = ki + 1
    /\ UNCHANGED <<extConfig, schema, child_rows, insensitive_paths, sensitive_paths,
                   uppercase_version_position, uppercase_names, compute_argument,
                   epc, final_cursor>>

KeysProjectorAdd ==
    /\ epc = "keys"
    /\ ki < KeysSize
    /\ keys_projector' =
          Append(keys_projector,
                 IF ~IsCaseInsensitiveString(KeyAt(ki))
                 THEN LookupAttributePosition(schema, KeyAt(ki).attribute_name)
                 ELSE UppercasePosition(KeyAt(ki).attribute_name))
    /\ ki' = ki + 1
    /\ UNCHANGED <<extConfig, schema, child_rows, insensitive_paths, sensitive_paths,
                   uppercase_version_position, uppercase_names, compute_argument,
                   epc, final_cursor>>

\* for (i < initial_number_of_attributes) output_projector->Add(i)
OutputProjectorAll(arguments) == [j \in DOMAIN arguments |-> j - 1]

OutputProjector(arguments) ==
    LET initial == {j \in DOMAIN arguments : arguments[j].op = "attribute"}
    IN [j \in 1..Cardinality(initial) |-> j - 1]

\* The sort order and the result projector are made, and BoundSort is called.
Sort ==
    /\ epc = "keys"
    /\ ki = KeysSize
    /\ LET order == [i \in DOMAIN keys_projector |->
                        Keys(<<keys_projector[i] + 1, KeyAt(i - 1).desc>>)]
           projector == IF ~result_projector.given
                        THEN OutputProjector(compute_argument)
                        ELSE result_projector.positions
       IN final_cursor' \in BoundSort(order, projector, schema, child_rows)
    /\ epc' = "limit"
    /\ UNCHANGED <<extConfig, schema, child_rows, insensitive_paths, sensitive_paths,
                   uppercase_version_position, uppercase_names, compute_argument,
                   keys_projector, ki>>

\* if (sort_specification->has_limit()) final_cursor = BoundLimit(0, limit, ...)
LimitNever ==
    /\ epc = "limit"
    /\ epc' = "done"
    /\ UNCHANGED <<extConfig, schema, child_rows, insensitive_paths, sensitive_paths,
                   uppercase_version_position, uppercase_names, compute_argument,
                   keys_projector, ki, final_cursor>>

Limit ==
    /\ epc = "limit"
    /\ final_cursor' = IF specification.has_limit
                       THEN BoundLimit(0, specification.limit, final_cursor)
                       ELSE final_cursor
    /\ epc' = "done"
    /\ UNCHANGED <<extConfig, schema, child_rows, insensitive_paths, sensitive_paths,
                   uppercase_version_position, uppercase_names, compute_argument,
                   keys_projector, ki>>

ExtNext ==
    \/ CheckKey
    \/ CheckDone
    \/ UppercaseKey
    \/ Compute
    \/ KeysProjectorAdd
    \/ Sort
    \/ Limit

ExtSpec == ExtInit /\ [][ExtNext]_vars

\* ------------------------------------------------------------- Concat
\* The STRING values of the columns: "x", "", and "a", a zero byte, "b".
Plain == <<120>>

Empty == <<>>

WithZero == <<97, 0, 98>>

\* What a block holds in a row that was not written in this evaluation: "?".
Stale == <<63>>

Value(bytes) == [is_null |-> FALSE, bytes |-> bytes]

NullValue == [is_null |-> TRUE, bytes |-> <<>>]

SpecialValues(is_nullable) ==
    {Value(Empty), Value(WithZero)} \cup (IF is_nullable THEN {NullValue} ELSE {})

\* The rows of the input view, one value for each argument: all plain, one
\* argument with a special value, or every nullable argument NULL.
ViewRows(flags) ==
    {[k \in DOMAIN flags |-> Value(Plain)]}
        \cup UNION {{[k \in DOMAIN flags |-> IF k = s THEN v ELSE Value(Plain)] :
                        v \in SpecialValues(flags[s])} : s \in DOMAIN flags}
        \cup {[k \in DOMAIN flags |-> IF flags[k] THEN NullValue ELSE Value(Plain)]}

ArgumentName(k) == <<"arg", k>>

\* The bound arguments: one attribute each, of type STRING.
Arguments(flags, view, counts) ==
    [k \in DOMAIN flags |->
        [name |-> ArgumentName(k),
         is_nullable |-> flags[k],
         attribute_count |-> counts[k],
         is_null |-> [r \in DOMAIN view |-> view[r][k].is_null],
         data |-> [r \in DOMAIN view |-> view[r][k].bytes]]]

\* The skip vector on entry: no bit set, or the bit of the first row.
SkipEntries(m) == {[r \in 1..m |-> FALSE], [r \in 1..m |-> r = 1]}

ConcatStart ==
    /\ skip_vectors = skip_entry
    /\ results = <<>>
    /\ unchecked = FALSE
    /\ destination = <<>>
    /\ xi = 0
    /\ xpc = "bind"
    /\ concat_schema = NoSchema
    /\ my_view = NoView
    /\ arena_failed = FALSE
    /\ input = <<>>
    /\ sort_order = <<>>
    /\ nullable = <<FALSE, FALSE, FALSE, FALSE, FALSE, FALSE>>
    /\ SortUnused
    /\ CursorUnused
    /\ ExtUnused
    /\ MergerUnused

\* BoundConcat is called with the arguments, DoEvaluate with a view and a skip
\* vector. One family has an argument of two attributes.
ConcatInit ==
    /\ \/ \E n \in 0..MaxArguments : \E flags \in [1..n -> BOOLEAN] :
            \E m \in 0..MaxViewRows : \E view \in [1..m -> ViewRows(flags)] :
                /\ arguments_ = Arguments(flags, view, [k \in 1..n |-> 1])
                /\ row_count = m
                /\ skip_entry \in SkipEntries(m)
       \/ \E n \in 1..MaxArguments :
            /\ arguments_ = Arguments([k \in 1..n |-> FALSE], <<>>,
                                      [k \in 1..n |-> IF k = n THEN 2 ELSE 1])
            /\ row_count = 0
            /\ skip_entry = <<>>
    /\ ConcatStart

concatConfig == <<input, sort_order, nullable, sortVars, cursorVars, extVars,
                  mergerVars, arguments_, row_count, skip_entry>>

ViewFailure(code) == [code |-> code, row_count |-> 0, data |-> <<>>, is_null |-> <<>>]

\* "CONCAT(" name ", " name ... ")"
RECURSIVE ConcatName(_)
ConcatName(names) ==
    IF names = <<>> THEN <<>>
    ELSE IF Len(names) = 1 THEN Head(names)
    ELSE Head(names) \o <<", ">> \o ConcatName(Tail(names))

\* BoundConcat: the check of the attribute counts, BoundToString of arguments
\* that are STRING, the name and the nullability.
BoundConcat ==
    /\ xpc = "bind"
    /\ IF \E k \in DOMAIN arguments_ : arguments_[k].attribute_count # 1
       THEN /\ my_view' = ViewFailure("ERROR_ATTRIBUTE_COUNT_MISMATCH")
            /\ xpc' = "done"
            /\ UNCHANGED concat_schema
       ELSE /\ concat_schema' =
                  [name |-> <<"CONCAT(">>
                              \o ConcatName([k \in DOMAIN arguments_ |-> arguments_[k].name])
                              \o <<")">>,
                   nullability |->
                       IF \E k \in DOMAIN arguments_ : arguments_[k].is_nullable
                       THEN "NULLABLE" ELSE "NOT_NULLABLE"]
            /\ xpc' = "arguments"
            /\ UNCHANGED my_view
    /\ UNCHANGED <<concatConfig, arena_failed, skip_vectors, results, unchecked,
                   destination, xi>>

\* arguments_->get(n)->DoEvaluate(input, skip_vectors): the argument sets the
\* bit of every row where it is NULL, and may leave the rows whose bit is set
\* unwritten.
EvaluateArgument ==
    /\ xpc = "arguments"
    /\ xi < Len(arguments_)
    /\ LET argument == arguments_[xi + 1]
       IN /\ \E lazy \in BOOLEAN :
                results' = Append(results,
                    [r \in 1..row_count |->
                        IF lazy /\ (skip_vectors[r] \/ argument.is_null[r]) THEN Stale
                        ELSE argument.data[r]])
          /\ skip_vectors' =
                [r \in 1..row_count |-> skip_vectors[r] \/ argument.is_null[r]]
    /\ xi' = xi + 1
    /\ UNCHANGED <<concatConfig, arena_failed, unchecked, destination, xpc,
                   concat_schema, my_view>>

\* PROPAGATE_ON_FAILURE(result)
ArgumentFails ==
    /\ xpc = "arguments"
    /\ xi < Len(arguments_)
    /\ my_view' = ViewFailure("ERROR_EVALUATION_ERROR")
    /\ xpc' = "done"
    /\ UNCHANGED <<concatConfig, arena_failed, skip_vectors, results, unchecked,
                   destination, xi, concat_schema>>

\* !SelectivityIsGreaterThan(skip_vector, input.row_count(), 100): either loop
\* may be the one that runs. The block holds the values of an earlier
\* evaluation.
Selectivity ==
    /\ xpc = "arguments"
    /\ xi = Len(arguments_)
    /\ unchecked' \in BOOLEAN
    /\ destination' = [r \in 1..row_count |-> Stale]
    /\ xi' = 0
    /\ xpc' = "rows"
    /\ UNCHANGED <<concatConfig, arena_failed, skip_vectors, results, concat_schema,
                   my_view>>

\* strncpy(destination, source, n) with n the size of source: the bytes up to
\* the first zero byte, and zero bytes from there on.
Strncpy(source) ==
    [i \in DOMAIN source |->
        IF \E j \in 1..i : source[j] = 0 THEN 0 ELSE source[i]]

\* new_str of row r: the copies of sources[n], one after the other.
RECURSIVE NewStr(_, _)
NewStr(sources, r) ==
    IF sources = <<>> THEN <<>>
    ELSE Strncpy(Head(sources)[r]) \o NewStr(Tail(sources), r)

\* arena->AllocateBytes(length): bytes of the arena, or NULL when the arena is
\* out of memory, and it stays out of memory to the end of the evaluation. No
\* memory is needed for a length of zero.
AllocateBytes(length) ==
    IF length = 0 THEN {"bytes"}
    ELSE IF arena_failed THEN {"NULL"}
    ELSE {"bytes", "NULL"}

\* One round of the loop over the rows.
ConcatRow ==
    /\ xpc = "rows"
    /\ xi < row_count
    /\ IF unchecked \/ ~skip_vectors[xi + 1]
       THEN \E new_str \in AllocateBytes(Len(NewStr(results, xi + 1))) :
               IF new_str = "bytes"
               THEN /\ destination' =
                          [destination EXCEPT ![xi + 1] = NewStr(results, xi + 1)]
                    /\ xi' = xi + 1
                    /\ UNCHANGED <<arena_failed, xpc>>
               \* new_str is not compared with NULL: strncpy writes through it.
               \* The process is stopped by the write, or the loop goes on
               \* with a StringPiece that has no bytes of its own.
               ELSE /\ arena_failed' = TRUE
                    /\ \/ /\ xpc' = "crashed"
                          /\ UNCHANGED <<destination, xi>>
                       \/ /\ xi' = xi + 1
                          /\ UNCHANGED <<destination, xpc>>
       ELSE /\ xi' = xi + 1
            /\ UNCHANGED <<destination, arena_failed, xpc>>
    /\ UNCHANGED <<concatConfig, skip_vectors, results, unchecked, concat_schema,
                   my_view>>

ReturnEntrySkip ==
    /\ xpc = "rows"
    /\ xi = row_count
    /\ my_view' = [code |-> "OK", row_count |-> row_count, data |-> destination,
                   is_null |-> skip_entry]
    /\ xpc' = "done"
    /\ UNCHANGED <<concatConfig, arena_failed, skip_vectors, results, unchecked,
                   destination, xi, concat_schema>>

ReturnRowsWritten ==
    /\ xpc = "rows"
    /\ xi = row_count
    /\ my_view' = [code |-> "OK",
                   row_count |-> Cardinality({r \in 1..row_count : ~skip_vectors[r]}),
                   data |-> destination, is_null |-> skip_vectors]
    /\ xpc' = "done"
    /\ UNCHANGED <<concatConfig, arena_failed, skip_vectors, results, unchecked,
                   destination, xi, concat_schema>>

\* set_row_count, ResetIsNull(skip_vectors.column(0)), Success(*my_view()).
ReturnView ==
    /\ xpc = "rows"
    /\ xi = row_count
    /\ my_view' = [code |-> "OK", row_count |-> row_count, data |-> destination,
                   is_null |-> skip_vectors]
    /\ xpc' = "done"
    /\ UNCHANGED <<concatConfig, arena_failed, skip_vectors, results, unchecked,
                   destination, xi, concat_schema>>

ConcatNext ==
    \/ BoundConcat
    \/ EvaluateArgument
    \/ ArgumentFails
    \/ Selectivity
    \/ ConcatRow
    \/ ReturnView

ConcatSpec == ConcatInit /\ [][ConcatNext]_vars

\* ------------------------------------------------------------- BasicMerger
\* The operations of a BasicMerger that may fail.
MergerFaults == {"temp_file", "spill_write", "finalize", "file_input",
                 "merge_union_all"}

\* The rows from..from+k-1 of the input.
RowIds(from, k) == [i \in 1..k |-> from + i - 1]

\* The sorted cursors over the rows: one that returns all of them and EOS, and
\* those that wait on a barrier after some of them.
SortedCursors(rows) ==
    UNION {{SortedCursor(sorted, FALSE, <<>>)}
               \cup {SortedCursor(Take(sorted, j), TRUE, Drop(sorted, j)) :
                        j \in 0..Len(sorted)}
           : sorted \in SortView(rows)}

\* The state after BasicMerger's constructor (CreateMerger).
MergerInit ==
    /\ sort_order \in CursorOrders
    /\ nullable \in Nullabilities(sort_order)
    /\ input \in UNION {[0..(n - 1) -> {<<a, 1>> : a \in CursorCells(nullable[1])}] :
                        n \in 0..MaxInput}
    /\ fault = MergerFaults
    /\ file_buffers = <<>>
    /\ disk = {}
    /\ created = 0
    /\ merger = [NoMerger EXCEPT !.pc = "ready"]
    /\ capacity = 0
    /\ barrier_supported = FALSE
    /\ child_pos = 0
    /\ child_interrupted = FALSE
    /\ writer = [eos |-> FALSE, waiting |-> FALSE, pending |-> <<>>]
    /\ memory_buffer = <<>>
    /\ sorter_result = NoCursor
    /\ result = NoCursor
    /\ cpc = "idle"
    /\ ipc = "none"
    /\ max_row_count = 0
    /\ ret = "none"
    /\ emitted = <<>>
    /\ calls = [barrier_rows |-> 0, after_interrupt |-> "none",
                first_after |-> "none"]
    /\ SortUnused
    /\ ExtUnused
    /\ ConcatUnused

mergerConfig == <<input, sort_order, nullable, sortVars, extVars, concatVars,
                  capacity, barrier_supported, fault, child_pos, child_interrupted,
                  writer, memory_buffer, sorter_result, result, cpc, ipc,
                  max_row_count, ret, emitted, calls>>

\* AddSorted is called with a sorted cursor over the next rows of the input.
\* A caller that gets a failure gives the merger up, as UnbufferedSorter::Write
\* does.
MergerAddSorted ==
    /\ merger.pc = "ready"
    /\ merger.calls < MaxAddSorted
    /\ \E k \in 0..(InputRows - merger.next) :
       \E cursor \in SortedCursors(RowIds(merger.next, k)) :
       \E o \in AddSorted(cursor, file_buffers, disk, created) :
          /\ file_buffers' = o.file_buffers
          /\ disk' = o.disk
          /\ created' = o.created
          /\ merger' = [merger EXCEPT !.pc = IF o.code = "OK" THEN "ready"
                                             ELSE "failed",
                                      !.calls = @ + 1,
                                      !.next = @ + k,
                                      !.last = "AddSorted",
                                      !.code = o.code,
                                      !.before = file_buffers,
                                      !.read = o.read,
                                      !.finalized = o.finalized,
                                      !.write_failed = o.write_failed,
                                      !.finalize_failed = o.finalize_failed,
                                      !.waiting = o.waiting]
    /\ UNCHANGED mergerConfig

\* Merge is called, with or without an additional cursor over the rows left.
MergerMerge ==
    /\ merger.pc = "ready"
    /\ \E additional \in
             {NoCursor} \cup
             {Cursor(sorted, {}) :
                 sorted \in SortView(RowIds(merger.next, InputRows - merger.next))} :
       \E o \in Merge(file_buffers, additional, disk) :
          /\ file_buffers' = o.file_buffers
          /\ disk' = o.disk
          /\ merger' = [merger EXCEPT !.pc = "merged",
                                      !.last = "Merge",
                                      !.code = o.code,
                                      !.before = file_buffers,
                                      !.merged_cursors = o.merged_cursors,
                                      !.additional = additional,
                                      !.result = o.cursor]
    /\ UNCHANGED <<mergerConfig, created>>

MergerNext == MergerAddSorted \/ MergerMerge

MergerSpec == MergerInit /\ [][MergerNext]_vars

\* ------------------------------------------------------------- the order of rows
\* The order a bound sort order puts on rows: per key, NULL is equal to NULL
\* and below every value, and DESC reverses the key's order.
KeyRank(view, key, r) == IF IsNullAt(view, key, r) THEN 0 ELSE Cell(view, key, r)

KeyBefore(view, key, a, b) ==
    IF key.desc THEN KeyRank(view, key, b) < KeyRank(view, key, a)
                ELSE KeyRank(view, key, a) < KeyRank(view, key, b)

KeyEqual(view, key, a, b) == KeyRank(view, key, a) = KeyRank(view, key, b)

\* Rows a and b agree on keys 1..k of the order.
EqualUpTo(view, order, k, a, b) ==
    \A m \in 1..k : KeyEqual(view, order[m], a, b)

RowBefore(view, order, a, b) ==
    \E k \in DOMAIN order :
        /\ KeyBefore(view, order[k], a, b)
        /\ EqualUpTo(view, order, k - 1, a, b)

RowEqual(view, order, a, b) == EqualUpTo(view, order, Len(order), a, b)

IsPermutation(perm, n) ==
    /\ DOMAIN perm = 0..(n - 1)
    /\ {perm[i] : i \in DOMAIN perm} = 0..(n - 1)

NonDecreasing(view, order, perm) ==
    \A i, j \in DOMAIN perm : i < j => ~RowBefore(view, order, perm[j], perm[i])

\* The rows of a view read through a permutation, as a sequence.
ReadThrough(view, perm) == [i \in 1..RowCount(view) |-> view[perm[i - 1]]]

SortDone == pc = "done"

\* ------------------------------------------------------------- claims C1, C3, C4
\* C1: when SortPermutation returns, the permutation array holds a permutation
\* of [0..n) and the rows of the input read through it are non-decreasing under
\* the sort order (keys in declared precedence, direction per key); Example 1 of
\* the file header comes out as (1,2),(3,1),(3,3),(4,1),(4,2),(4,5),(5,3).
C1_SortedPermutation ==
    SortDone =>
        /\ IsPermutation(permutation, RowCount(input))
        /\ NonDecreasing(input, sort_order, permutation)
        /\ input = Example1 =>
             ReadThrough(input, permutation) =
                <<<<1, 2>>, <<3, 1>>, <<3, 3>>, <<4, 1>>, <<4, 2>>, <<4, 5>>, <<5, 3>>>>
        /\ input = Example2 =>
             ReadThrough(input, permutation) = <<<<1, 2>>, <<3, 3>>, <<4, 2>>, <<5, 3>>>>

C1_Witness ==
    /\ SortDone
    /\ input = Example1
    /\ ReadThrough(input, permutation)[4] = <<4, 1>>
    /\ permutation[3] = 6

C4_NullPlacement ==
    SortDone =>
        /\ \A k \in DOMAIN sort_order : \A i, j \in DOMAIN permutation :
              LET key == sort_order[k]
                  a == permutation[i]
                  b == permutation[j]
              IN (/\ nullable[key.pos]
                  /\ i < j
                  /\ EqualUpTo(input, sort_order, k - 1, a, b))
                 => /\ ~key.desc => ~(IsNullAt(input, key, b) /\ ~IsNullAt(input, key, a))
                    /\ key.desc => ~(IsNullAt(input, key, a) /\ ~IsNullAt(input, key, b))
                    /\ (IsNullAt(input, key, a) /\ IsNullAt(input, key, b))
                         => \A m \in (k + 1)..Len(sort_order) :
                               (EqualUpTo(input, sort_order, m - 1, a, b))
                                   => ~KeyBefore(input, sort_order[m], b, a)
        /\ (input = Example3 /\ ~sort_order[1].desc) =>
             [i \in 1..5 |-> ReadThrough(input, permutation)[i][1]] = <<Null, Null, 1, 3, 5>>
        /\ (input = Example3 /\ sort_order[1].desc) =>
             [i \in 1..5 |-> ReadThrough(input, permutation)[i][1]] = <<5, 3, 1, Null, Null>>

\* A finished two-key sort whose first key is DESC with two NULL rows that the
\* second key had to put in order, after a row with a value.
C4_Witness ==
    /\ SortDone
    /\ NumColumns = 2
    /\ sort_order[1].desc
    /\ \E i, j \in DOMAIN permutation :
          /\ 0 < i /\ i < j
          /\ ~IsNullAt(input, sort_order[1], permutation[0])
          /\ IsNullAt(input, sort_order[1], permutation[i])
          /\ IsNullAt(input, sort_order[1], permutation[j])
          /\ permutation[i] > permutation[j]
          /\ KeyBefore(input, sort_order[2], permutation[i], permutation[j])

\* ------------------------------------------------------------- claims C2, C5..C10
\* The rows of the child, named by their position in the child's input: the
\* name stands for the columns of a row that the sort order does not read.
AllRows == [i \in 1..InputRows |-> i - 1]

\* The rows the cursor returns when the table takes every row (no flush).
UnboundedResults == SortView(AllRows)

\* The quota is larger than the size of one row.
QuotaHoldsOneRow == \A r \in DOMAIN input : RowSize(r) <= capacity

\* Next returned EOS: emitted is all the cursor returns.
Complete == ret = "EOS"

EachOnce(rows, n) ==
    /\ Len(rows) = n
    /\ {rows[i] : i \in DOMAIN rows} = 0..(n - 1)

RowsNonDecreasing(rows) ==
    \A i, j \in DOMAIN rows :
        i < j => ~RowBefore(input, sort_order, rows[j], rows[i])

Drained ==
    /\ writer.eos
    /\ writer.pending = <<>>
    /\ child_pos = InputRows

\* C5: Next returns rows, or EOS, only after the child reported EOS and all its
\* rows were written to the sorter; the result cursor exists only then.
C5_Blocking ==
    (ret \in {"ROWS", "EOS"} \/ emitted # <<>> \/ result.set \/ sorter_result.set)
        => Drained

\* Next returned rows of a result merged from a flushed run and the tail.
C5_Witness ==
    /\ ret = "ROWS"
    /\ emitted # <<>>
    /\ created > 0
    /\ Drained

RECURSIVE RunsRows(_)
RunsRows(buffers) ==
    IF buffers = <<>> THEN <<>> ELSE Head(buffers).rows \o RunsRows(Tail(buffers))

\* The rows the sorter holds: the runs of the merger and the table.
SorterRows == RunsRows(file_buffers) \o memory_buffer

\* C6: when Next returns WaitingOnBarrier the sorter holds every row the child
\* produced, once, and no result cursor exists; and the rows emitted up to EOS
\* are all rows of the child, each once, in sort order.
C6_BarrierKeepsRows ==
    /\ (cpc = "idle" /\ ret = "WAITING_ON_BARRIER")
          => /\ EachOnce(SorterRows, child_pos)
             /\ ~result.set
             /\ emitted = <<>>
    /\ Complete
          => /\ EachOnce(emitted, InputRows)
             /\ RowsNonDecreasing(emitted)

\* EOS after a barrier return that came when rows were already written, some
\* of them flushed.
C6_Witness ==
    /\ Complete
    /\ calls.barrier_rows > 0
    /\ calls.barrier_rows < InputRows
    /\ created > 0
    /\ EachOnce(emitted, InputRows)
    /\ InputRows = MaxInput

\* C7 as stated: the first Next that starts after Interrupt has returned yields
\* INTERRUPTED.
C7_NextAfterInterrupt ==
    calls.after_interrupt = "done" => calls.first_after = "INTERRUPTED"

\* The step of BufferingSorter::Write returned a failure.
WriteFailed == cpc' = "idle"

\* The run added by the step: the rows of the table, each once, in sort order.
RunAdded ==
    /\ created' = created + 1
    /\ Len(file_buffers') = Len(file_buffers) + 1
    /\ SubSeq(file_buffers', 1, Len(file_buffers)) = file_buffers
    /\ LET run == file_buffers'[Len(file_buffers')]
       IN /\ run.id = created'
          /\ run.id \in disk'
          /\ run.id \notin disk
          /\ Len(run.rows) = Len(memory_buffer)
          /\ {run.rows[i] : i \in DOMAIN run.rows}
                = {memory_buffer[i] : i \in DOMAIN memory_buffer}
          /\ RowsNonDecreasing(run.rows)

NothingFlushed == UNCHANGED <<file_buffers, disk, created>>

\* The write took the first k rows of the view into the table buffer.
Accepted(buffer, k) ==
    /\ ~WriteFailed
    /\ memory_buffer' = buffer \o Take(writer.pending, k)
    /\ writer'.pending = Drop(writer.pending, k)

\* The retry on the cleared table.
Retried ==
    LET k == TableAccepts(<<>>, writer.pending)
    IN IF k > 0 THEN Accepted(<<>>, k)
       ELSE /\ WriteFailed
            /\ ret' = "ERROR_MEMORY_EXCEEDED"
            /\ memory_buffer' = <<>>

\* The failures of the table's sink and of the flush.
WriteFailures == Failures \ {"ERROR_MEMORY_EXCEEDED"}

OwnedFiles == FileIds(file_buffers) \cup result.files \cup sorter_result.files

\* C9: every temporary file on disk is owned by the merger or by the merged
\* cursor, whatever failed, and none is left once the cursor is destroyed.
C9_NoFileLeft ==
    /\ disk \subseteq OwnedFiles
    /\ cpc = "destroyed" => disk = {}

\* The cursor was destroyed after Merge failed with some files already opened.
C9_Witness ==
    /\ cpc = "destroyed"
    /\ ret = "FILE_INPUT_FAILURE"
    /\ created >= 2
    /\ Len(file_buffers) < created - 1
    /\ disk = {}

\* INIT, DRAINING, MERGING, EOS, and FAILED.
Phase ==
    IF ret \in Failures THEN 4
    ELSE IF result.set /\ ret = "EOS" THEN 3
    ELSE IF result.set THEN 2
    ELSE IF cpc # "idle" \/ ret # "none" THEN 1
    ELSE 0

\* C10: the cursor's phase never goes back; Next returns WaitingOnBarrier only
\* before the child's EOS and with no result cursor; and once the result cursor
\* is installed no step reads the child or writes to the sorter.
C10_ForwardOnly ==
    [][/\ (cpc' # "destroyed" => Phase' >= Phase)
       /\ (cpc # "idle" /\ cpc' = "idle" /\ ret' = "WAITING_ON_BARRIER")
             => (~result'.set /\ ~writer'.eos)
       /\ result.set
             => /\ result'.set
                /\ cpc' \notin {"process", "write", "result_cursor", "set_result"}
                /\ UNCHANGED <<child_pos, writer, memory_buffer, file_buffers,
                               created>>]_vars

\* EOS reached over a barrier return, a flush and the merge.
C10_Witness ==
    /\ ret = "EOS"
    /\ result.set
    /\ result.pos = Len(result.rows)
    /\ calls.barrier_rows > 0
    /\ created > 0
    /\ cpc = "idle"

\* ------------------------------------------------------------- claims C11..C13
\* C11: once Next has returned EOS, every later Next returns EOS: no step emits
\* a row, reads the child, writes to the sorter or enters ProcessData.
C11_EosStays ==
    [][ret = "EOS" =>
        /\ ret' = "EOS"
        /\ cpc' \in {"idle", "result", "destroyed"}
        /\ UNCHANGED <<emitted, child_pos, writer, memory_buffer, file_buffers,
                       created>>]_vars

\* A Next call in progress after EOS was returned, on a result merged from a
\* flushed run.
C11_Witness ==
    /\ ret = "EOS"
    /\ cpc = "result"
    /\ emitted # <<>>
    /\ created > 0

\* C12: a Next that returns Rows returns at least one row and at most
\* max_row_count rows.
C12_AtMostMaxRowCount ==
    [][(cpc = "result" /\ cpc' = "idle" /\ ret' = "ROWS")
          => /\ Len(emitted') - Len(emitted) >= 1
             /\ Len(emitted') - Len(emitted) <= max_row_count]_vars

\* Next(1) is in progress on a merged result with more than one row left.
C12_Witness ==
    /\ cpc = "result"
    /\ max_row_count = 1
    /\ result.files # {}
    /\ Len(result.rows) - result.pos >= 2

\* C13: a Next that returns a failure has emitted no row and installed no
\* result cursor; the result cursor is installed only from a GetResultCursor
\* that succeeded; and after a failure nothing is emitted.
C13_FirstFailure ==
    [][/\ (cpc # "idle" /\ cpc' = "idle" /\ ret' \in Failures)
             => (emitted' = <<>> /\ ~result'.set /\ ~sorter_result'.set)
       /\ (cpc = "result_cursor" /\ cpc' = "set_result")
             => (sorter_result'.set /\ EachOnce(sorter_result'.rows, InputRows))
       /\ ret \in Failures
             => (UNCHANGED <<ret, emitted>> /\ ~result'.set)]_vars

\* Next failed on the write of the second run.
C13_Witness ==
    /\ ret = "SPILL_WRITE_FAILURE"
    /\ Len(file_buffers) = 1
    /\ created = 2
    /\ emitted = <<>>
    /\ cpc = "idle"

\* ------------------------------------------------------------- claims C14..C18
SameAttribute(i, j) ==
    /\ i # j
    /\ specification.keys[i].attribute_name = specification.keys[j].attribute_name

\* Two keys name the same attribute and are both case-sensitive or both
\* case-insensitive.
DuplicateKeys ==
    \E i, j \in DOMAIN specification.keys :
        /\ SameAttribute(i, j)
        /\ specification.keys[i].case_sensitive = specification.keys[j].case_sensitive

\* One key is case-sensitive and another case-insensitive on an attribute of
\* the type.
MixedKeysOn(types) ==
    \E i, j \in DOMAIN specification.keys :
        /\ SameAttribute(i, j)
        /\ specification.keys[i].case_sensitive
        /\ ~specification.keys[j].case_sensitive
        /\ LookupAttribute(schema, specification.keys[i].attribute_name).type
              \in types

DuplicateKeyError == final_cursor.code = "ERROR_INVALID_ARGUMENT_VALUE"

\* C14: with two keys of the same attribute and the same case sensitivity,
\* BoundExtendedSort ends in the duplicate check with
\* ERROR_INVALID_ARGUMENT_VALUE, and builds no compute argument and no cursor.
C14_DuplicateRejected ==
    DuplicateKeys
        => /\ epc \in {"check", "done"}
           /\ epc = "done" => DuplicateKeyError
           /\ compute_argument = <<>>
           /\ final_cursor.code # "OK"

\* Two case-insensitive keys on the STRING attribute were rejected.
C14_Witness ==
    /\ epc = "done"
    /\ DuplicateKeyError
    /\ DuplicateKeys
    /\ insensitive_paths # {}
    /\ sensitive_paths = {}

\* C15 as stated: a case-sensitive and a case-insensitive key on the same
\* attribute, of any type, do not give the duplicate-key error.
C15_MixedAccepted ==
    (MixedKeysOn({"STRING", "INT32"}) /\ ~DuplicateKeys) => ~DuplicateKeyError

\* C15: without two keys of the same attribute and case sensitivity, a
\* case-sensitive and a case-insensitive key on the same attribute pass the
\* duplicate check when the attribute is STRING, and fail it with the
\* duplicate-key error when the attribute is not STRING.
C15_MixedAcceptedOnString ==
    ~DuplicateKeys
        => /\ DuplicateKeyError => MixedKeysOn({"INT32"})
           /\ (epc # "check" /\ ~DuplicateKeyError) => ~MixedKeysOn({"INT32"})

\* A case-sensitive and a case-insensitive key on the STRING attribute, sorted.
C15_Witness ==
    /\ epc = "done"
    /\ final_cursor.code = "OK"
    /\ MixedKeysOn({"STRING"})
    /\ Len(child_rows) = MaxChildRows

\* The positions of the child's own attributes in compute_argument.
InitialAttributes ==
    {j \in DOMAIN compute_argument : compute_argument[j].op = "attribute"}

\* The rows of the child as they came, after Compute has added its columns.
OriginalRows ==
    [r \in DOMAIN child_rows |->
        [j \in 1..Cardinality(InitialAttributes) |-> child_rows[r][j]]]

\* What a key compares of a row of the child.
KeyValue(key, row) ==
    LET attribute == LookupAttribute(schema, key.attribute_name)
        cell == row[LookupAttributePosition(schema, key.attribute_name) + 1]
    IN IF ~key.case_sensitive /\ attribute.type = "STRING" THEN ToUpper(cell)
       ELSE cell

KeyValueLess(key, x, y) ==
    LET less(a, b) ==
            IF LookupAttribute(schema, key.attribute_name).type = "STRING"
            THEN StringLess(a, b) ELSE a < b
    IN IF key.desc THEN less(KeyValue(key, y), KeyValue(key, x))
       ELSE less(KeyValue(key, x), KeyValue(key, y))

SpecifiedBefore(x, y) ==
    \E k \in DOMAIN specification.keys :
        /\ KeyValueLess(specification.keys[k], x, y)
        /\ \A m \in 1..(k - 1) :
              KeyValue(specification.keys[m], x) = KeyValue(specification.keys[m], y)

SameRows(a, b) ==
    /\ Len(a) = Len(b)
    /\ \A i \in DOMAIN a :
          Cardinality({q \in DOMAIN a : a[q] = a[i]})
              = Cardinality({q \in DOMAIN b : b[q] = a[i]})

\* BoundSort has returned, no result projector was given.
Sorted == epc = "limit" /\ ~result_projector.given

\* The rows the sort cursor gives are the child's rows with their original
\* values, ordered by the keys: uppercased for a case-insensitive key on a
\* STRING attribute, the original cell otherwise.
OrderedAsSpecified ==
    Sorted
        => /\ SameRows(final_cursor.rows, OriginalRows)
           /\ \A i, j \in DOMAIN final_cursor.rows :
                 i < j => ~SpecifiedBefore(final_cursor.rows[j], final_cursor.rows[i])

FruitsAscending ==
    /\ Sorted
    /\ OriginalRows = FruitRows
    /\ ~specification.keys[1].case_sensitive
    /\ ~specification.keys[1].desc

SyntheticNames ==
    {compute_argument[j].name : j \in DOMAIN compute_argument \ InitialAttributes}

\* The child's own attributes.
OriginalSchema ==
    IF epc \in {"check", "uppercase"} THEN schema
    ELSE SubSeq(schema, 1, Cardinality(InitialAttributes))

\* C17: the schema of the result holds no uppercase column, and is the child's
\* schema when no result projector was given; the names of the uppercase
\* columns differ from the child's attribute names and from each other.
C17_NoSyntheticColumn ==
    /\ final_cursor.code = "OK"
          => /\ \A j \in DOMAIN final_cursor.schema :
                    final_cursor.schema[j].name \notin SyntheticNames
             /\ ~result_projector.given => final_cursor.schema = OriginalSchema
             /\ \A r \in DOMAIN final_cursor.rows :
                    Len(final_cursor.rows[r]) = Len(final_cursor.schema)
    /\ SyntheticNames \cap AttributeNames(OriginalSchema) = {}
    /\ Cardinality(SyntheticNames) = Len(compute_argument) - Cardinality(InitialAttributes)

\* Two uppercase columns whose first choice of name was taken.
C17_Witness ==
    /\ epc = "done"
    /\ final_cursor.code = "OK"
    /\ Cardinality(SyntheticNames) = 2
    /\ StrCat(kBaseTemporaryAttributeName, NameA) \in AttributeNames(OriginalSchema)
    /\ Append(StrCat(kBaseTemporaryAttributeName, NameA), 1) \in SyntheticNames
    /\ final_cursor.schema = OriginalSchema

\* C18: the sort cursor gives all n rows; with a limit L the cursor returned
\* gives the first min(L, n) of them, in that order, and without a limit all.
C18_Limit ==
    [][epc = "limit" =>
        /\ Len(final_cursor.rows) = Len(child_rows)
        /\ final_cursor'.rows =
              IF specification.has_limit
              THEN SubSeq(final_cursor.rows, 1,
                          IF specification.limit < Len(child_rows)
                          THEN specification.limit ELSE Len(child_rows))
              ELSE final_cursor.rows
        /\ epc' = "done"]_vars

\* A limit of one row on a child of more rows.
C18_Witness ==
    /\ epc = "done"
    /\ specification.has_limit
    /\ specification.limit = 1
    /\ Len(child_rows) = MaxChildRows
    /\ Len(final_cursor.rows) = 1

\* ------------------------------------------------------------- claims C19, C20
\* The bytes of the arguments in row r, one argument after the other.
RECURSIVE Concatenation(_, _)
Concatenation(columns, r) ==
    IF columns = <<>> THEN <<>>
    ELSE Head(columns).data[r] \o Concatenation(Tail(columns), r)

SomeArgumentNull(r) == \E k \in DOMAIN arguments_ : arguments_[k].is_null[r]

Evaluated == xpc = "done" /\ my_view.code = "OK"

\* C19: in every row that is not NULL the value of Concat is the bytes of the
\* arguments in argument order; the attribute is NULLABLE exactly when an
\* argument is nullable; a row that was not skipped on entry is NULL exactly
\* when an argument is NULL in it.
C19_ByteWise ==
    /\ xpc \notin {"unused", "bind"} /\ my_view.code \in {"PENDING", "OK"}
          => (concat_schema.nullability = "NULLABLE"
                 <=> \E k \in DOMAIN arguments_ : arguments_[k].is_nullable)
    /\ Evaluated
          => /\ my_view.row_count = row_count
             /\ \A r \in 1..row_count :
                   /\ ~my_view.is_null[r]
                         => my_view.data[r] = Concatenation(arguments_, r)
                   /\ ~skip_entry[r] => (my_view.is_null[r] <=> SomeArgumentNull(r))

\* C20: the arguments are evaluated one after the other on the one skip
\* vector, which gets the bits of the rows where the argument is NULL; no bit
\* is ever cleared; on return every row where an evaluated argument is NULL has
\* its bit set, as has every row whose bit was set on entry, and the view's
\* null bitmap is the skip vector.
C20_SkipVector ==
    [][/\ \A r \in DOMAIN skip_vectors : skip_vectors[r] => skip_vectors'[r]
       /\ Len(results') = Len(results) + 1
             => skip_vectors' =
                   [r \in 1..row_count |->
                       skip_vectors[r] \/ arguments_[Len(results')].is_null[r]]
       /\ xpc' = "done"
             => /\ \A r \in 1..row_count :
                      /\ skip_entry[r] => skip_vectors'[r]
                      /\ \A k \in DOMAIN results' :
                            arguments_[k].is_null[r] => skip_vectors'[r]
                /\ my_view'.code = "OK" => my_view'.is_null = skip_vectors']_vars

\* A row skipped on entry, and a row where an argument is NULL.
C20_Witness ==
    /\ Evaluated
    /\ \E r, q \in 1..row_count :
          /\ skip_entry[r] /\ ~SomeArgumentNull(r)
          /\ ~skip_entry[q] /\ SomeArgumentNull(q)
          /\ my_view.is_null[r] /\ my_view.is_null[q]

\* ------------------------------------------------------------- claims C25..C27
RangeLength(range) == range.to - range.from

Positions(range) == range.from..(range.to - 1)

\* Two positions next to each other hold rows that agree on keys 1..k.
RunOfTwo(k) ==
    \E p \in DOMAIN permutation :
        /\ p + 1 \in DOMAIN permutation
        /\ EqualUpTo(input, sort_order, k, permutation[p], permutation[p + 1])

\* C25: every range added for the next key holds more than one row, and the
\* loop goes on to the next key only when two rows next to each other still
\* agree on the keys processed.
C25_RangesLongerThanOne ==
    /\ \A i \in DOMAIN target_ranges : RangeLength(target_ranges[i]) >= 2
    /\ col > 0 => \A i \in DOMAIN source_ranges : RangeLength(source_ranges[i]) >= 2
    /\ (pc = "loop" /\ col > 0) => RunOfTwo(col)

\* C26: the permutation array holds each index of [0..n) once at every step;
\* a step changes only positions inside the source range it processes, which
\* is a range of the working set of the key; the input view never changes.
C26_Frame ==
    [][/\ IsPermutation(permutation, RowCount(input))
       /\ IsPermutation(permutation', RowCount(input))
       /\ input' = input
       /\ \A p \in DOMAIN permutation :
             permutation'[p] # permutation[p]
                => /\ pc = "column"
                   /\ ridx <= Len(source_ranges)
                   /\ p \in Positions(source_ranges[ridx])]_vars

\* The second key has reordered the rows of a range that does not start at
\* row 0, and left the row before that range where it was.
C26_Witness ==
    /\ pc = "column"
    /\ col = 1
    /\ Len(source_ranges) = 1
    /\ ridx = 2
    /\ source_ranges[1].from > 0
    /\ permutation[0] = 0
    /\ \E p \in Positions(source_ranges[1]) :
          p + 1 \in Positions(source_ranges[1]) /\ permutation[p] > permutation[p + 1]

\* The key col has been applied to every range of source_ranges: keys 1..col+1
\* of the order are processed, and target_ranges is the working set.
KeyProcessed == pc = "column" /\ ridx > Len(source_ranges)

InCommonRange(p, q) ==
    \E i \in DOMAIN target_ranges :
        p \in Positions(target_ranges[i]) /\ q \in Positions(target_ranges[i])

WorkingSetOrdered ==
    LET k == col + 1
        n == RowCount(input)
    IN /\ \A i \in DOMAIN target_ranges :
             /\ 0 <= target_ranges[i].from
             /\ target_ranges[i].from <= target_ranges[i].to
             /\ target_ranges[i].to <= n
             /\ \A p, q \in Positions(target_ranges[i]) :
                   EqualUpTo(input, sort_order, k, permutation[p], permutation[q])
       /\ \A i, j \in DOMAIN target_ranges :
             i # j => Positions(target_ranges[i]) \cap Positions(target_ranges[j]) = {}
       /\ \A p \in 0..(n - 2) :
             ~InCommonRange(p, p + 1)
                => RowBefore(input, SubSeq(sort_order, 1, k),
                             permutation[p], permutation[p + 1])

\* C27 as stated: after every key, the last one included.
C27_AfterEveryKey == KeyProcessed => WorkingSetOrdered

\* C27: after a key that is not the last, the ranges of the working set are
\* pairwise disjoint and lie within [0,n) with from <= to, the rows of one range
\* agree on the keys processed, and two rows next to each other that are not in
\* a common range are strictly ordered by the keys processed. After the last
\* key no range is recorded.
C27_AfterKeyBeforeLast ==
    KeyProcessed
        => /\ col < NumColumns - 1 => WorkingSetOrdered
           /\ col = NumColumns - 1 => target_ranges = <<>>

\* After the first key of a longer order the working set is one range that
\* does not start at row 0: the row before it is strictly ordered before it.
C27_Witness ==
    /\ KeyProcessed
    /\ col = 0
    /\ NumColumns > 1
    /\ Len(target_ranges) = 1
    /\ target_ranges[1].from > 0
    /\ permutation[0] # 0

\* ------------------------------------------------------------- claims C21, C22
\* C21: the view a successful evaluation of Concat returns has the row count of
\* the input view, and one value and one null bit for each of these rows,
\* whichever rows are skipped and whichever of the two loops ran.
C21_RowCount ==
    Evaluated
        => /\ my_view.row_count = row_count
           /\ DOMAIN my_view.data = 1..row_count
           /\ DOMAIN my_view.is_null = 1..row_count

\* The loop that reads the skip vector ran over a view of several rows, one of
\* them skipped on entry and another made NULL by an argument.
C21_Witness ==
    /\ Evaluated
    /\ ~unchecked
    /\ ~arena_failed
    /\ row_count = MaxViewRows
    /\ skip_entry[1]
    /\ \E r \in 1..row_count : ~skip_vectors[r]
    /\ my_view.row_count = MaxViewRows

\* C22: when the arena of the destination cannot allocate the bytes of a row,
\* Concat returns a Failure: it neither writes through the failed allocation
\* nor returns a view.
C22_ArenaFailure ==
    arena_failed => xpc = "done" /\ my_view.code \notin {"OK", "PENDING"}

\* ------------------------------------------------------------- claims C29, C30
\* C29: when the merger holds no run as the result is asked for, no temporary
\* file was ever created, the result is the cursor over the sorted rows of
\* the table, with no file of its own, and MergeUnionAll is not called (none
\* of Merge's failures is returned); a write that finds the table empty, and
\* so can flush only an empty table, creates no file and records no run.
C29_InMemoryResult ==
    [][/\ (cpc = "result_cursor" /\ file_buffers = <<>>)
            => /\ created = 0
               /\ created' = 0
               /\ disk' = {}
               /\ file_buffers' = <<>>
               /\ ret' \notin {"FILE_INPUT_FAILURE", "MERGE_UNION_ALL_FAILURE"}
               /\ cpc' = "set_result"
                    => /\ sorter_result'.rows \in SortView(memory_buffer)
                       /\ sorter_result'.files = {}
       /\ (cpc = "write" /\ memory_buffer = <<>>)
            => /\ created' = created
               /\ disk' = disk
               /\ file_buffers' = file_buffers]_vars

\* All rows of the child were sorted in memory and read to the end.
C29_Witness ==
    /\ ret = "EOS"
    /\ result.set
    /\ result.files = {}
    /\ created = 0
    /\ Len(emitted) = MaxInput

\* GetResultCursor has returned a cursor.
ResultCursorTaken == cpc = "set_result" \/ result.set

\* C30: GetResultCursor is called only when the child has returned EOS and no
\* result cursor was taken before; once one is taken the cursor never reads
\* the child, writes to the sorter or asks for a result cursor again; rows and
\* EOS are returned only from the result cursor; and when Next returns
\* WaitingOnBarrier the writer is waiting on a barrier and no result exists.
C30_OneResultCursor ==
    [][/\ cpc' = "result_cursor"
            => /\ cpc = "process"
               /\ child_pos = InputRows
               /\ writer'.eos
               /\ ~ResultCursorTaken
       /\ ResultCursorTaken
            => /\ ResultCursorTaken'
               /\ cpc' \notin {"process", "write", "result_cursor"}
       /\ (cpc # "idle" /\ cpc' = "idle" /\ ret' \in {"ROWS", "EOS"}) => result.set
       /\ (cpc # "idle" /\ cpc' = "idle" /\ ret' = "WAITING_ON_BARRIER")
            => /\ writer'.waiting
               /\ ~result'.set]_vars

\* The child waited on a barrier after some of its rows; the result was read
\* to the end.
C30_Witness ==
    /\ ret = "EOS"
    /\ result.set
    /\ calls.barrier_rows > 0
    /\ Len(emitted) = MaxInput

\* ------------------------------------------------------------- claims C23, C24, C28
AddSortedReturned == merger.last = "AddSorted"

\* C23: when the cursor AddSorted writes to the file waits on a barrier,
\* AddSorted fails with ERROR_NOT_IMPLEMENTED and records no run.
C23_BarrierRejected ==
    (AddSortedReturned /\ merger.waiting)
        => /\ merger.code = "ERROR_NOT_IMPLEMENTED"
           /\ file_buffers = merger.before

\* C24: when the temporary file cannot be created, AddSorted fails with
\* ERROR_TEMP_FILE_CREATION_ERROR, has read no row of the cursor and leaves the
\* runs as they were; when the write to the file fails, the sink is finalized
\* all the same, and the failure of the write is the one returned, also when
\* Finalize fails too, and no run is recorded.
C24_AddSortedFailures ==
    AddSortedReturned
        => /\ merger.code = "ERROR_TEMP_FILE_CREATION_ERROR"
                => /\ merger.read = 0
                   /\ ~merger.finalized
                   /\ file_buffers = merger.before
                   /\ disk = FileIds(file_buffers)
           /\ merger.write_failed
                => /\ merger.finalized
                   /\ merger.code = "SPILL_WRITE_FAILURE"
                   /\ file_buffers = merger.before
                   /\ disk = FileIds(file_buffers)

\* With one run recorded, the write of a second failed after some rows, and
\* then Finalize failed too.
C24_Witness ==
    /\ AddSortedReturned
    /\ merger.write_failed
    /\ merger.finalize_failed
    /\ merger.read > 0
    /\ Len(merger.before) = 1
    /\ merger.code = "SPILL_WRITE_FAILURE"

Reverse(s) == [i \in 1..Len(s) |-> s[Len(s) + 1 - i]]

RunsOf(buffers) == [i \in 1..Len(buffers) |-> buffers[i].rows]

MergeReturned == merger.pc = "merged"

\* C28: BoundMergeUnionAll is given the runs in the reverse of the order they
\* were recorded in, and the additional cursor, when there is one, last; when
\* Merge returns, with a cursor or a failure, the runs it reached are no
\* longer recorded, and after a successful Merge none is.
C28_MergeOrder ==
    MergeReturned
        => /\ merger.code \in {"OK", "MERGE_UNION_ALL_FAILURE"}
                => /\ merger.merged_cursors =
                         Reverse(RunsOf(merger.before))
                             \o (IF merger.additional.set
                                 THEN <<merger.additional.rows>> ELSE <<>>)
                   /\ file_buffers = <<>>
           /\ merger.code = "OK"
                => merger.result.rows = MergeUnionAll(merger.merged_cursors)
           /\ merger.code = "FILE_INPUT_FAILURE"
                => /\ Len(file_buffers) < Len(merger.before)
                   /\ file_buffers = Take(merger.before, Len(file_buffers))
           /\ disk \cap (FileIds(merger.before) \ FileIds(file_buffers))
                 \subseteq merger.result.files

\* Two runs of different rows and an additional cursor were merged.
C28_Witness ==
    /\ MergeReturned
    /\ merger.code = "OK"
    /\ Len(merger.before) = 2
    /\ merger.before[1].rows # merger.before[2].rows
    /\ merger.additional.set
    /\ merger.additional.rows # <<>>
    /\ Len(merger.merged_cursors) = 3

====
